---- MODULE Spec2Model ----
(***************************************************************************)
(* A model of the Confluence ADF server (src/server.py): the tree walkers  *)
(* of the text edits, the optimistic push protocol with its single 409     *)
(* recovery, the local snapshot cache, and the OAuth token manager.        *)
(*                                                                         *)
(* Strings are sequences of one-character strings, so that Python's        *)
(* `in`, str.count and str.replace can be computed as the interpreter      *)
(* computes them.  An ADF node is a record: a text leaf is                 *)
(* [type |-> "text", text |-> s], a container is                           *)
(* [type |-> k, content |-> <<children>>].  attrs and marks hold no nested *)
(* node in the documents modelled, so the walkers' descent into them       *)
(* visits nothing and is left out.                                         *)
(***************************************************************************)
EXTENDS Integers, Sequences, FiniteSets, TLC

\* ------------------------------------------------------------------ bounds
MaxText == 2        \* longest text of a leaf in the drawn documents
MaxFind == 2        \* longest `find` argument drawn
MaxCalls == 4       \* tool calls (and external writes) in one behaviour
MaxTokenCalls == 3  \* ensure_valid() calls in one behaviour
MaxTicks == 2       \* clock steps in one behaviour

\* ------------------------------------------------------------------- state
VARIABLES
    remote,     \* the page on the server: [id, title, version, spaceId, body]
    cache,      \* the cache file of PageId: NoFile or a snapshot
    pc,         \* pc[t]: where task t's tool call is suspended
    loc,        \* loc[t]: the locals of task t's tool call
    result,     \* result[t]: what task t's last tool call returned
    http,       \* http[t]: the requests of task t's current call, answered
    budget,     \* tool calls left
    now,        \* the clock, in seconds
    tok,        \* the manager's state: access_token, refresh_token, expires_at
    disk,       \* the token file: NoFile or a persisted state
    lock,       \* the refresh lock: Free or the caller holding it
    opc,        \* opc[c]: where caller c's ensure_valid() is suspended
    ores,       \* ores[c]: what caller c's last call returned
    entry,      \* entry[c]: clock, token and lock as c's call found them
    olog,       \* olog[c]: the answers to the refresh requests of c's call (0: awaited)
    burst,      \* the calls since all callers were last idle
    issued,     \* tokens issued by the endpoint
    ocalls      \* ensure_valid() calls left

pvars == <<remote, cache, pc, loc, result, http, budget>>
ovars == <<now, tok, disk, lock, opc, ores, entry, olog, burst, issued, ocalls>>
vars == <<pvars, ovars>>

Chars == {"a", "b"}

RECURSIVE StrsOfLen(_)
StrsOfLen(n) ==
    IF n = 0 THEN {<<>>}
    ELSE {<<c>> \o s : c \in Chars, s \in StrsOfLen(n - 1)}

StrsUpTo(n) == UNION {StrsOfLen(k) : k \in 0..n}

\* ----------------------------------------------------- Python str methods
\* `find in s`
Contains(find, s) ==
    \E i \in 0..(Len(s) - Len(find)) : SubSeq(s, i + 1, i + Len(find)) = find

StartsWith(s, find) ==
    Len(s) >= Len(find) /\ SubSeq(s, 1, Len(find)) = find

Drop(s, n) == SubSeq(s, n + 1, Len(s))

\* s.count(find): non-overlapping occurrences, left to right; Len(s) + 1
\* for the empty pattern.
RECURSIVE PyCount(_, _)
PyCount(s, find) ==
    IF find = <<>> THEN Len(s) + 1
    ELSE IF Len(s) < Len(find) THEN 0
    ELSE IF StartsWith(s, find) THEN 1 + PyCount(Drop(s, Len(find)), find)
    ELSE PyCount(Tail(s), find)

\* s.replace("", rep, n): rep goes in front of each of the first n
\* characters, and after the last one when replacements are left.
RECURSIVE Interleave(_, _, _)
Interleave(s, rep, n) ==
    IF n = 0 THEN s
    ELSE IF s = <<>> THEN rep
    ELSE rep \o <<Head(s)>> \o Interleave(Tail(s), rep, n - 1)

\* s.replace(find, rep, n); n = -1 replaces every occurrence.
RECURSIVE PyReplace(_, _, _, _)
PyReplace(s, find, rep, n) ==
    IF n = 0 THEN s
    ELSE IF find = <<>> THEN Interleave(s, rep, n)
    ELSE IF Len(s) < Len(find) THEN s
    ELSE IF StartsWith(s, find)
         THEN rep \o PyReplace(Drop(s, Len(find)), find, rep, n - 1)
    ELSE <<Head(s)>> \o PyReplace(Tail(s), find, rep, n)

\* ------------------------------------------------------------- ADF nodes
make_text(s) == [type |-> "text", text |-> s]
make_node(k, content) == [type |-> k, content |-> content]
make_paragraph(s) == make_node("paragraph", <<make_text(s)>>)
make_adf(content) == make_node("doc", content)

IsTextLeaf(node) == node.type = "text" /\ "text" \in DOMAIN node
HasContent(node) == "content" \in DOMAIN node

\* The text leaves of a tree in depth-first pre-order.
RECURSIVE LeavesOf(_)
RECURSIVE LeavesOfList(_)
LeavesOf(node) ==
    IF IsTextLeaf(node) THEN <<node.text>>
    ELSE IF HasContent(node) THEN LeavesOfList(node.content)
    ELSE <<>>
LeavesOfList(list) ==
    IF list = <<>> THEN <<>>
    ELSE LeavesOf(Head(list)) \o LeavesOfList(Tail(list))

\* The tree with its text leaves blanked: type, nesting and order of nodes.
RECURSIVE ShapeOf(_)
RECURSIVE ShapeOfList(_)
ShapeOf(node) ==
    IF IsTextLeaf(node) THEN make_text(<<>>)
    ELSE IF HasContent(node) THEN make_node(node.type, ShapeOfList(node.content))
    ELSE node
ShapeOfList(list) ==
    IF list = <<>> THEN <<>>
    ELSE <<ShapeOf(Head(list))>> \o ShapeOfList(Tail(list))

\* -------------------------------------------- confluence_edit_page walker
\* st = [count, found]: the closure's nonlocal variables.
\* (EditLeafEveryLeaf: the walker without its `elif not found or count == 0`.)
EditLeafEveryLeaf(node, find, replace, replace_all, st) ==
    IF IsTextLeaf(node) /\ Contains(find, node.text)
    THEN IF replace_all
         THEN [node |-> [node EXCEPT !.text = PyReplace(node.text, find, replace, -1)],
               st |-> [count |-> st.count + PyCount(node.text, find), found |-> TRUE]]
         ELSE [node |-> [node EXCEPT !.text = PyReplace(node.text, find, replace, 1)],
               st |-> [count |-> 1, found |-> TRUE]]
    ELSE [node |-> node, st |-> st]

EditLeaf(node, find, replace, replace_all, st) ==
    IF IsTextLeaf(node) /\ Contains(find, node.text)
    THEN LET st1 == [st EXCEPT !.found = TRUE]
         IN  IF replace_all
             THEN [node |-> [node EXCEPT !.text = PyReplace(node.text, find, replace, -1)],
                   st |-> [st1 EXCEPT !.count = st1.count + PyCount(node.text, find)]]
             ELSE IF ~st1.found \/ st1.count = 0
             THEN [node |-> [node EXCEPT !.text = PyReplace(node.text, find, replace, 1)],
                   st |-> [st1 EXCEPT !.count = 1]]
             ELSE [node |-> node, st |-> st1]
    ELSE [node |-> node, st |-> st]

RECURSIVE EditReplaceText(_, _, _, _, _)
RECURSIVE EditReplaceList(_, _, _, _, _)
EditReplaceText(node, find, replace, replace_all, st) ==
    LET leaf == EditLeaf(node, find, replace, replace_all, st)
    IN  IF HasContent(node)
        THEN LET sub == EditReplaceList(node.content, find, replace, replace_all, leaf.st)
             IN  [node |-> [leaf.node EXCEPT !.content = sub.list], st |-> sub.st]
        ELSE leaf
EditReplaceList(list, find, replace, replace_all, st) ==
    IF list = <<>> THEN [list |-> <<>>, st |-> st]
    ELSE LET h == EditReplaceText(Head(list), find, replace, replace_all, st)
             t == EditReplaceList(Tail(list), find, replace, replace_all, h.st)
         IN  [list |-> <<h.node>> \o t.list, st |-> t.st]

\* ----------------------------------------- confluence_find_replace walker
\* count: the closure's nonlocal variable.
\* (FrLeafCountsLeaves: the walker counting matching leaves, not occurrences.)
FrLeafCountsLeaves(node, find, replace, replace_all, count) ==
    IF IsTextLeaf(node) /\ Contains(find, node.text)
    THEN IF replace_all
         THEN [node |-> [node EXCEPT !.text = PyReplace(node.text, find, replace, -1)],
               count |-> count + 1]
         ELSE IF count = 0
         THEN [node |-> [node EXCEPT !.text = PyReplace(node.text, find, replace, 1)],
               count |-> 1]
         ELSE [node |-> node, count |-> count]
    ELSE [node |-> node, count |-> count]

FrLeaf(node, find, replace, replace_all, count) ==
    IF IsTextLeaf(node) /\ Contains(find, node.text)
    THEN IF replace_all
         THEN [node |-> [node EXCEPT !.text = PyReplace(node.text, find, replace, -1)],
               count |-> count + PyCount(node.text, find)]
         ELSE IF count = 0
         THEN [node |-> [node EXCEPT !.text = PyReplace(node.text, find, replace, 1)],
               count |-> 1]
         ELSE [node |-> node, count |-> count]
    ELSE [node |-> node, count |-> count]

RECURSIVE FrReplaceText(_, _, _, _, _)
RECURSIVE FrReplaceList(_, _, _, _, _)
FrReplaceText(node, find, replace, replace_all, count) ==
    LET leaf == FrLeaf(node, find, replace, replace_all, count)
    IN  IF HasContent(node)
        THEN LET sub == FrReplaceList(node.content, find, replace, replace_all, leaf.count)
             IN  [node |-> [leaf.node EXCEPT !.content = sub.list], count |-> sub.count]
        ELSE leaf
FrReplaceList(list, find, replace, replace_all, count) ==
    IF list = <<>> THEN [list |-> <<>>, count |-> count]
    ELSE LET h == FrReplaceText(Head(list), find, replace, replace_all, count)
             t == FrReplaceList(Tail(list), find, replace, replace_all, h.count)
         IN  [list |-> <<h.node>> \o t.list, count |-> t.count]

\* ------------------------------------------------ pages, cache and tasks
PageId == "12345"
Tasks == {"t1", "t2"}
Solo == {"t1"}                     \* the task of the serial agent loop
NoFile == [missing |-> TRUE]
ErrStatus == {500}                  \* the non-2xx, non-409 answers drawn

InitDoc == make_adf(<<make_paragraph(<<"a", "a">>), make_paragraph(<<"a">>)>>)
ExtDoc == make_adf(<<make_paragraph(<<"b">>)>>)
Finds == {<<>>, <<"a">>}            \* the arguments drawn by Next
Repls == {<<"b">>}

Is2xx(status) == status >= 200 /\ status < 300

\* _push_page_update, lines 163-172: the request body of the first PUT.
PayloadStale(page_id, title, adf, current_version, message) ==
    [id |-> page_id, title |-> title, status |-> "current",
     number |-> current_version, message |-> message, body |-> adf]

Payload(page_id, title, adf, current_version, message) ==
    [id |-> page_id, title |-> title, status |-> "current",
     number |-> current_version + 1, message |-> message, body |-> adf]

\* line 182: the recovery overwrites the version number and nothing else.
RetryPayloadRebased(payload, current) ==
    [payload EXCEPT !.number = current.version + 1, !.body = current.body]

RetryPayload(payload, current) ==
    [payload EXCEPT !.number = current.version + 1]

\* line 180: only the answer to the first PUT is tested for 409.
AfterPutAlways409(stage, status) ==
    IF status = 409 THEN "refetch" ELSE "idle"

\* (AfterPutNoRecovery: a push that treats 409 like any other error.)
AfterPutNoRecovery(stage, status) == "idle"

AfterPut(stage, status) ==
    IF stage = "put1" /\ status = 409 THEN "refetch" ELSE "idle"

\* _cache_after_push: the snapshot written after a successful push.
CacheAfterPushRemoteSpace(res, adf, space_id) ==
    [id |-> res.id, title |-> res.title, version |-> res.version,
     spaceId |-> res.spaceId, adf |-> adf]

\* (CacheAfterPushSentVersion: the snapshot stamped with the version the
\* push started from instead of the version of the answer.)
CacheAfterPushSentVersion(res, adf, space_id) ==
    [id |-> res.id, title |-> res.title, version |-> res.version - 1,
     spaceId |-> IF space_id # "" THEN space_id ELSE res.spaceId,
     adf |-> adf]

_cache_after_push(res, adf, space_id) ==
    [id |-> res.id, title |-> res.title, version |-> res.version,
     spaceId |-> IF space_id # "" THEN space_id ELSE res.spaceId,
     adf |-> adf]

\* raise_for_status() (line 189) stands between the answer and the tool's
\* _cache_after_push (lines 479, 544): a failed push writes nothing.
CacheOnAnyAnswer(status, cached, res, adf, space_id) ==
    _cache_after_push(res, adf, space_id)

CacheOnAnswer(status, cached, res, adf, space_id) ==
    IF Is2xx(status) THEN _cache_after_push(res, adf, space_id) ELSE cached

\* The server's side of PUT /api/v2/pages/{id}: the page is replaced when
\* the request carries the current version + 1, and 409 answers otherwise.
PutAccepted(payload) == payload.number = remote.version + 1
RemoteAfterPut(payload) ==
    [remote EXCEPT !.title = payload.title, !.version = payload.number,
                   !.body = payload.body]

NoLoc == [tool |-> "none", payload |-> Payload(PageId, "", InitDoc, 0, ""),
          known |-> 0, space |-> "", count |-> 0,
          args |-> [find |-> <<>>, replace |-> <<>>, replace_all |-> FALSE],
          doc |-> make_adf(<<>>), pre |-> NoFile]
NoResult == [tool |-> "none", outcome |-> "none", status |-> 0, version |-> 0, count |-> 0]

Req(method, number, status) == [method |-> method, number |-> number, status |-> status]

Returns(t, tool, outcome, status, version, count) ==
    result' = [result EXCEPT ![t] =
        [tool |-> tool, outcome |-> outcome, status |-> status,
         version |-> version, count |-> count]]

SeedCaches ==
    {NoFile} \cup
    {[id |-> PageId, title |-> "T", version |-> 1, spaceId |-> s, adf |-> InitDoc] :
        s \in {"", "LOCAL"}}

InitPages ==
    /\ remote = [id |-> PageId, title |-> "T", version |-> 1,
                 spaceId |-> "SPACE1", body |-> InitDoc]
    /\ cache \in SeedCaches
    /\ pc = [t \in Tasks |-> "idle"]
    /\ loc = [t \in Tasks |-> NoLoc]
    /\ result = [t \in Tasks |-> NoResult]
    /\ http = [t \in Tasks |-> <<>>]
    /\ budget = MaxCalls

\* confluence_get_page: one GET, then the snapshot is written.
GetPage(t) ==
    /\ pc[t] = "idle" /\ budget > 0
    /\ budget' = budget - 1
    /\ \E status \in {200} \cup ErrStatus :
        /\ http' = [http EXCEPT ![t] = <<Req("GET", remote.version, status)>>]
        /\ cache' = IF Is2xx(status)
                    THEN [id |-> remote.id, title |-> remote.title,
                          version |-> remote.version, spaceId |-> remote.spaceId,
                          adf |-> remote.body]
                    ELSE cache
        /\ IF Is2xx(status)
           THEN Returns(t, "get_page", "fetched", status, remote.version, 0)
           ELSE Returns(t, "get_page", "http_error", status, 0, 0)
    /\ loc' = [loc EXCEPT ![t] = [NoLoc EXCEPT !.tool = "get_page", !.pre = cache]]
    /\ UNCHANGED <<remote, pc, ovars>>

\* confluence_edit_page: no request; the cache file is rewritten on a match.
EditPage(t, find, replace, replace_all) ==
    /\ pc[t] = "idle" /\ budget > 0
    /\ budget' = budget - 1
    /\ http' = [http EXCEPT ![t] = <<>>]
    /\ loc' = [loc EXCEPT ![t] =
            [NoLoc EXCEPT !.tool = "edit_page", !.pre = cache,
                !.args = [find |-> find, replace |-> replace, replace_all |-> replace_all],
                !.doc = IF cache = NoFile THEN NoLoc.doc ELSE cache.adf]]
    /\ IF cache = NoFile
       THEN /\ Returns(t, "edit_page", "no_cache", 0, 0, 0)
            /\ cache' = cache
       ELSE LET r == EditReplaceText(cache.adf, find, replace, replace_all,
                                     [count |-> 0, found |-> FALSE])
            IN  IF ~r.st.found
                THEN /\ Returns(t, "edit_page", "not_found", 0, 0, 0)
                     /\ cache' = cache
                ELSE /\ Returns(t, "edit_page", "edited", 0, 0,
                                IF replace_all THEN r.st.count ELSE 1)
                     /\ cache' = [cache EXCEPT !.adf = r.node]
    /\ UNCHANGED <<remote, pc, ovars>>

\* confluence_push_page up to its first await: the snapshot is read and
\* the first PUT is on its way.
PushPage(t) ==
    /\ pc[t] = "idle" /\ budget > 0
    /\ budget' = budget - 1
    /\ http' = [http EXCEPT ![t] = <<>>]
    /\ IF cache = NoFile
       THEN /\ Returns(t, "push_page", "no_cache", 0, 0, 0)
            /\ loc' = [loc EXCEPT ![t] = [NoLoc EXCEPT !.tool = "push_page", !.pre = cache]]
            /\ pc' = pc
       ELSE /\ loc' = [loc EXCEPT ![t] =
                    [NoLoc EXCEPT !.tool = "push_page",
                        !.payload = Payload(cache.id, cache.title, cache.adf,
                                            cache.version, "Updated via MCP"),
                        !.known = cache.version, !.space = cache.spaceId,
                        !.pre = cache]]
            /\ pc' = [pc EXCEPT ![t] = "put1"]
            /\ result' = [result EXCEPT ![t] = NoResult]
    /\ UNCHANGED <<remote, cache, ovars>>

\* confluence_find_replace up to its second await: GET, parse, edit, and
\* either the not-found return or the first PUT on its way.
FindReplace(t, find, replace, replace_all) ==
    /\ pc[t] = "idle" /\ budget > 0
    /\ budget' = budget - 1
    /\ \E status \in {200} \cup ErrStatus :
        /\ http' = [http EXCEPT ![t] = <<Req("GET", remote.version, status)>>]
        /\ LET r == FrReplaceText(remote.body, find, replace, replace_all, 0)
               l == [NoLoc EXCEPT !.tool = "find_replace", !.pre = cache,
                        !.args = [find |-> find, replace |-> replace,
                                  replace_all |-> replace_all],
                        !.doc = IF Is2xx(status) THEN remote.body ELSE NoLoc.doc]
           IN  IF ~Is2xx(status)
               THEN /\ Returns(t, "find_replace", "http_error", status, 0, 0)
                    /\ loc' = [loc EXCEPT ![t] = l]
                    /\ pc' = pc
               ELSE IF r.count = 0
               THEN /\ Returns(t, "find_replace", "not_found", 0, 0, 0)
                    /\ loc' = [loc EXCEPT ![t] = l]
                    /\ pc' = pc
               ELSE /\ loc' = [loc EXCEPT ![t] =
                            [l EXCEPT
                                !.payload = Payload(PageId, remote.title, r.node,
                                                    remote.version, "Replaced"),
                                !.known = remote.version, !.space = remote.spaceId,
                                !.count = r.count]]
                    /\ pc' = [pc EXCEPT ![t] = "put1"]
                    /\ result' = [result EXCEPT ![t] = NoResult]
    /\ UNCHANGED <<remote, cache, ovars>>

\* Where a tool goes on when _push_page_update has returned or raised:
\* confluence_move_page sends its second PUT, every other tool ends.
AfterPush(tool, status) ==
    IF tool = "move_page" /\ Is2xx(status) THEN "move_put" ELSE "idle"

\* _push_page_update, lines 174-178 and 183-190: a PUT is answered, and the
\* tool goes on to the recovery, to its _cache_after_push, or to the error.
Put(t) ==
    /\ pc[t] \in {"put1", "put2"}
    /\ \E status \in {IF PutAccepted(loc[t].payload) THEN 200 ELSE 409} \cup ErrStatus :
        LET p == loc[t].payload
            after == IF Is2xx(status) THEN RemoteAfterPut(p) ELSE remote
            res == [id |-> after.id, title |-> after.title,
                    version |-> after.version, spaceId |-> after.spaceId]
            next == IF AfterPut(pc[t], status) = "idle"
                    THEN AfterPush(loc[t].tool, status)
                    ELSE AfterPut(pc[t], status)
        IN  /\ remote' = after
            /\ http' = [http EXCEPT ![t] = Append(@, Req("PUT", p.number, status))]
            /\ pc' = [pc EXCEPT ![t] = next]
            /\ IF next # "idle"
               THEN UNCHANGED <<cache, result>>
               ELSE /\ cache' = CacheOnAnswer(status, cache, res, p.body, loc[t].space)
                    /\ IF Is2xx(status)
                       THEN Returns(t, loc[t].tool, "pushed", status, res.version,
                                    loc[t].count)
                       ELSE Returns(t, loc[t].tool, "http_error", status, 0, 0)
    /\ UNCHANGED <<loc, budget, ovars>>

\* (RefetchUnchecked: _get_page_raw without its raise_for_status.)
RefetchUnchecked(t) ==
    /\ pc[t] = "refetch"
    /\ \E status \in {200} \cup ErrStatus :
        /\ http' = [http EXCEPT ![t] = Append(@, Req("GET", remote.version, status))]
        /\ loc' = [loc EXCEPT ![t].payload = RetryPayload(@, remote)]
        /\ pc' = [pc EXCEPT ![t] = "put2"]
        /\ result' = result
    /\ UNCHANGED <<remote, cache, budget, ovars>>

\* _push_page_update, lines 180-182: the recovery's GET (_get_page_raw).
Refetch(t) ==
    /\ pc[t] = "refetch"
    /\ \E status \in {200} \cup ErrStatus :
        /\ http' = [http EXCEPT ![t] = Append(@, Req("GET", remote.version, status))]
        /\ IF Is2xx(status)
           THEN /\ loc' = [loc EXCEPT ![t].payload = RetryPayload(@, remote)]
                /\ pc' = [pc EXCEPT ![t] = "put2"]
                /\ result' = result
           ELSE /\ Returns(t, loc[t].tool, "http_error", status, 0, 0)
                /\ pc' = [pc EXCEPT ![t] = "idle"]
                /\ loc' = loc
    /\ UNCHANGED <<remote, cache, budget, ovars>>

\* Another client of the server commits a version of the page.
ExternalWrite ==
    /\ budget > 0
    /\ budget' = budget - 1
    /\ remote' = [remote EXCEPT !.version = @ + 1, !.body = ExtDoc]
    /\ UNCHANGED <<cache, pc, loc, result, http, ovars>>

\* ---------------------------------------------- the OAuth token manager
\* _OAuthTokenManager, as section 4.5 of the specification describes it.
\* Access and refresh tokens are numbers: 0 is the empty access token and
\* the seed refresh token, k > 0 the k-th token the endpoint issued.  The
\* clock advances in steps coarser than a call, between calls.
BUFFER == 300                       \* the expiry buffer, in seconds
Step == 2 * 60                      \* one clock step, in seconds
Lifetimes == {360, 600}             \* expires_in of an issued token
Callers == {"c1", "c2", "c3"}
RefreshErrors == {400, 500}
Free == "free"
SeedToken == [access_token |-> 0, refresh_token |-> 0, expires_at |-> 0]
NoAnswer == [kind |-> "none", token |-> 0, status |-> 0, text |-> "none"]
NoEntry == [now |-> -1, expires_at |-> 0, access_token |-> 0, free |-> FALSE]
NoBurst == [callers |-> {}, sent |-> 0, failed |-> FALSE, before |-> 0]

\* is_expired(): inside the buffer before expires_at, or past it.
IsExpiredNoBuffer(t, expires_at) == t >= expires_at
is_expired(t, expires_at) == t >= expires_at - BUFFER

\* ensure_valid() looks at the expiry again once it holds the lock.
RefreshUnderLockAlways(t, expires_at) == TRUE
RefreshUnderLock(t, expires_at) == is_expired(t, expires_at)

\* _load_from_disk(): the persisted state, or the seed when there is none.
_load_from_disk(file) == IF file = NoFile THEN SeedToken ELSE file

\* _save_to_disk(): the three fields of the state, written to the file.
SaveNothing(state, file) == file
_save_to_disk(state, file) == state

\* A successful answer of the token endpoint, applied to the state: the
\* refresh token is replaced only when the answer carries one.
Refreshed(state, issued_no, rotated, t, expires_in) ==
    [access_token |-> issued_no,
     refresh_token |-> IF rotated THEN issued_no ELSE state.refresh_token,
     expires_at |-> t + expires_in]

\* What the tool returns when ensure_valid() raised OAuthRefreshError.
RefreshFailedAsHttpError(status) ==
    [kind |-> "error", token |-> 0, status |-> status, text |-> "http_error"]
RefreshFailedText(status) ==
    [kind |-> "error", token |-> 0, status |-> status,
     text |-> "OAuth token refresh failed"]

AllIdle == \A c \in Callers : opc[c] = "idle"

InitTokens(files) ==
    /\ now = 0
    /\ disk \in files
    /\ tok = _load_from_disk(disk)
    /\ lock = Free
    /\ opc = [c \in Callers |-> "idle"]
    /\ ores = [c \in Callers |-> NoAnswer]
    /\ entry = [c \in Callers |-> NoEntry]
    /\ olog = [c \in Callers |-> <<>>]
    /\ burst = NoBurst
    /\ issued = 0
    /\ ocalls = MaxTokenCalls

\* ensure_valid() up to its first await: the cached token at once when it
\* is not expired; else the lock, and with it the refresh request.
EnsureValid(c) ==
    /\ opc[c] = "idle" /\ ocalls > 0
    /\ ocalls' = ocalls - 1
    /\ entry' = [entry EXCEPT ![c] =
            [now |-> now, expires_at |-> tok.expires_at,
             access_token |-> tok.access_token, free |-> lock = Free]]
    /\ LET b == IF AllIdle THEN [NoBurst EXCEPT !.before = tok.access_token]
                ELSE burst
           expired == is_expired(now, tok.expires_at)
           sends == expired /\ lock = Free
       IN  /\ burst' = [b EXCEPT !.callers = @ \cup {c},
                                 !.sent = IF sends THEN @ + 1 ELSE @]
           /\ olog' = [olog EXCEPT ![c] = IF sends THEN <<0>> ELSE <<>>]
           /\ lock' = IF sends THEN c ELSE lock
           /\ opc' = [opc EXCEPT ![c] =
                    IF ~expired THEN "idle"
                    ELSE IF sends THEN "refreshing" ELSE "waiting"]
           /\ ores' = [ores EXCEPT ![c] =
                    IF ~expired
                    THEN [kind |-> "token", token |-> tok.access_token,
                          status |-> 0, text |-> "ok"]
                    ELSE NoAnswer]
    /\ UNCHANGED <<now, tok, disk, issued, pvars>>

\* A waiting caller gets the lock and looks at the token again.
LockAcquired(c) ==
    /\ opc[c] = "waiting" /\ lock = Free
    /\ LET expired == RefreshUnderLock(now, tok.expires_at)
       IN  /\ lock' = IF expired THEN c ELSE Free
           /\ opc' = [opc EXCEPT ![c] = IF expired THEN "refreshing" ELSE "idle"]
           /\ olog' = [olog EXCEPT ![c] = IF expired THEN Append(@, 0) ELSE @]
           /\ burst' = [burst EXCEPT !.sent = IF expired THEN @ + 1 ELSE @]
           /\ ores' = [ores EXCEPT ![c] =
                    IF expired THEN NoAnswer
                    ELSE [kind |-> "token", token |-> tok.access_token,
                          status |-> 0, text |-> "ok"]]
    /\ UNCHANGED <<now, tok, disk, entry, issued, ocalls, pvars>>

\* The token endpoint answers the refresh request of the lock's holder.
RefreshAnswer(c) ==
    /\ opc[c] = "refreshing"
    /\ \E status \in {200} \cup RefreshErrors, expires_in \in Lifetimes,
          rotated \in BOOLEAN :
        LET new == Refreshed(tok, issued + 1, rotated, now, expires_in)
        IN  /\ status # 200 => (expires_in = 360 /\ ~rotated)   \* an error carries neither
            /\ tok' = IF status = 200 THEN new ELSE tok
            /\ disk' = IF status = 200 THEN _save_to_disk(new, disk) ELSE disk
            /\ issued' = IF status = 200 THEN issued + 1 ELSE issued
            /\ burst' = [burst EXCEPT !.failed = @ \/ status # 200]
            /\ olog' = [olog EXCEPT ![c][Len(olog[c])] = status]
            /\ ores' = [ores EXCEPT ![c] =
                    IF status = 200
                    THEN [kind |-> "token", token |-> new.access_token,
                          status |-> 0, text |-> "ok"]
                    ELSE RefreshFailedText(status)]
    /\ lock' = Free
    /\ opc' = [opc EXCEPT ![c] = "idle"]
    /\ UNCHANGED <<now, entry, ocalls, pvars>>

\* Time passes between calls.
Tick ==
    /\ AllIdle /\ now < MaxTicks * Step
    /\ now' = now + Step
    /\ UNCHANGED <<tok, disk, lock, opc, ores, entry, olog, burst, issued,
                   ocalls, pvars>>

\* The process restarts: a new manager is constructed from the token file.
Restart ==
    /\ AllIdle
    /\ \E c \in Callers : ores[c] # NoAnswer
    /\ tok' = _load_from_disk(disk)
    /\ lock' = Free
    /\ ores' = [c \in Callers |-> NoAnswer]
    /\ entry' = [c \in Callers |-> NoEntry]
    /\ olog' = [c \in Callers |-> <<>>]
    /\ burst' = NoBurst
    /\ UNCHANGED <<now, disk, opc, issued, ocalls, pvars>>

\* ------------------------------------------------------- specifications
Init == InitPages /\ InitTokens({NoFile})

\* One agent loop calls the tools in turn; the server has other clients.
Next ==
    \/ \E t \in Solo : GetPage(t)
    \/ \E t \in Solo, f \in Finds, r \in Repls, a \in BOOLEAN : EditPage(t, f, r, a)
    \/ \E t \in Solo : PushPage(t)
    \/ \E t \in Solo, f \in Finds, r \in Repls, a \in BOOLEAN : FindReplace(t, f, r, a)
    \/ \E t \in Solo : Put(t)
    \/ \E t \in Solo : Refetch(t)
    \/ ExternalWrite

Spec == Init /\ [][Next]_vars

\* An awaited request is answered (httpx gives every request a timeout), so
\* a suspended tool call is resumed.
FairSpec == Spec /\ \A t \in Solo : WF_vars(Put(t)) /\ WF_vars(Refetch(t))

\* ---------------------------------------------------------------- claims
\* The requests of _push_page_update in task t's current call: the log
\* from the first PUT on (confluence_find_replace sends its own GET first).
PushLog(t) ==
    IF loc[t].tool = "push_page" THEN http[t]
    ELSE IF loc[t].tool = "find_replace" /\ http[t] # <<>> THEN Tail(http[t])
    ELSE <<>>

IsPut(e) == e.method = "PUT"

OutcomeOf(t, status) ==
    IF Is2xx(status)
    THEN result[t].outcome = "pushed"
    ELSE result[t].outcome = "http_error" /\ result[t].status = status

\* C1: the first PUT of a push carries known_version + 1; the re-fetch is
\* sent if and only if that PUT answered 409; the one further PUT that
\* follows a successful re-fetch carries the re-fetched version + 1; no
\* other request is sent by the push.
C1_PutVersions ==
    \A t \in Tasks :
        LET L == PushLog(t)
        IN  /\ Len(L) <= 3
            /\ loc[t].tool = "push_page" /\ pc[t] # "idle"
                    => loc[t].known = loc[t].pre.version
            /\ Len(L) >= 1 => /\ L[1].method = "PUT"
                              /\ L[1].number = loc[t].known + 1
            /\ Len(L) >= 2 => L[1].status = 409 /\ L[2].method = "GET"
            /\ Len(L) >= 3 => /\ L[2].status = 200
                              /\ L[3].method = "PUT"
                              /\ L[3].number = L[2].number + 1
            /\ (Len(L) = 1 /\ L[1].status = 409) => pc[t] = "refetch"
            /\ (Len(L) = 2 /\ L[2].status = 200) => pc[t] = "put2"

\* Known version 1, remote at 3 when re-fetched: the retry carries 4.
C1_Witness ==
    \E t \in Tasks :
        LET L == PushLog(t)
        IN  /\ Len(L) = 3 /\ loc[t].known = 1
            /\ L[1].number = 2 /\ L[1].status = 409
            /\ L[2].number = 3 /\ L[3].number = 4 /\ L[3].status = 200

\* C2 (state part): a push sends at most two PUTs; any answer but 409 to
\* the first PUT ends the run at once, with no re-fetch and no second PUT;
\* any answer to the second PUT ends the run.
C2_AtMostTwoPuts ==
    \A t \in Tasks :
        LET L == PushLog(t)
        IN  /\ Len(SelectSeq(L, IsPut)) <= 2
            /\ (Len(L) >= 1 /\ L[1].status # 409)
                    => Len(L) = 1 /\ pc[t] = "idle" /\ OutcomeOf(t, L[1].status)
            /\ Len(L) = 3 => pc[t] = "idle" /\ OutcomeOf(t, L[3].status)
            /\ pc[t] = "idle" /\ Len(L) >= 1
                    => result[t].outcome \in {"pushed", "http_error"}

\* C2: every run of _push_page_update ends in Success or Failure after at
\* most two PUTs.
C2_PushEnds ==
    /\ []C2_AtMostTwoPuts
    /\ \A t \in Solo : (pc[t] # "idle") ~> (pc[t] = "idle")

\* A push whose two PUTs both answered 409 has ended in failure.
C2_Witness ==
    \E t \in Tasks :
        LET L == PushLog(t)
        IN  /\ Len(L) = 3 /\ L[1].status = 409 /\ L[3].status = 409
            /\ pc[t] = "idle" /\ result[t].outcome = "http_error"
            /\ result[t].status = 409

\* C3: after a successful push the snapshot is exactly {id and title of
\* the answer, the answer's version, the local space id or else the
\* answer's, the pushed tree}.
C3_CacheReplaced ==
    \A t \in Solo :
        result[t].outcome = "pushed" =>
            /\ result[t].version = PushLog(t)[Len(PushLog(t))].number
            /\ cache = [id |-> remote.id,
                        title |-> loc[t].payload.title,
                        version |-> result[t].version,
                        spaceId |-> IF loc[t].space # "" THEN loc[t].space
                                    ELSE remote.spaceId,
                        adf |-> loc[t].payload.body]

\* A push that succeeded on its retry, from a snapshot with a local space id.
C3_Witness ==
    \E t \in Solo :
        /\ result[t].outcome = "pushed" /\ result[t].tool = "push_page"
        /\ Len(PushLog(t)) = 3
        /\ loc[t].space = "LOCAL" /\ cache.spaceId = "LOCAL"
        /\ cache.version = 3 /\ loc[t].pre.version = 1

\* C4: a push that has not succeeded has written nothing: the snapshot is
\* the one read when the tool was called, with its tree and its version,
\* and the file is still there to be pushed again.
C4_FailedPushKeepsCache ==
    \A t \in Solo :
        (loc[t].tool \in {"push_page", "find_replace"}
            /\ result[t].outcome # "pushed") =>
            /\ cache = loc[t].pre
            /\ (loc[t].tool = "push_page" /\ result[t].outcome = "http_error")
                    => /\ cache # NoFile
                       /\ cache.version = loc[t].known
                       /\ cache.adf = loc[t].payload.body

\* A push of a locally edited snapshot failed on its first PUT, on the
\* re-fetch, or on the retry.
C4_Witness ==
    \E t \in Solo :
        /\ loc[t].tool = "push_page" /\ result[t].outcome = "http_error"
        /\ Len(PushLog(t)) = 3 /\ result[t].status = 409
        /\ cache.adf \notin {remote.body, InitDoc} /\ cache.version < remote.version

\* ------------------------------------------- the text edits on drawn trees
\* One call of an edit tool on each document of Docs, with each argument.
Texts == StrsUpTo(MaxText)
Docs ==
    {make_adf(<<make_node("paragraph",
                    <<make_text(x), [type |-> "hardBreak"], make_text(y)>>)>>) :
        x \in Texts, y \in Texts}
    \cup {make_adf(<<make_paragraph(x), make_paragraph(y)>>) :
        x \in Texts, y \in Texts}
    \cup {make_adf(<<make_node("blockquote", <<make_paragraph(x)>>), make_text(y)>>) :
        x \in Texts, y \in Texts}
EditFinds == StrsUpTo(MaxFind)
EditRepls == {<<>>, <<"b">>, <<"a", "b">>}

InitEdit ==
    /\ \E d \in Docs :
        /\ remote = [id |-> PageId, title |-> "T", version |-> 1,
                     spaceId |-> "SPACE1", body |-> d]
        /\ cache = [id |-> PageId, title |-> "T", version |-> 1,
                    spaceId |-> "LOCAL", adf |-> d]
    /\ pc = [t \in Tasks |-> "idle"]
    /\ loc = [t \in Tasks |-> NoLoc]
    /\ result = [t \in Tasks |-> NoResult]
    /\ http = [t \in Tasks |-> <<>>]
    /\ budget = 1
    /\ InitTokens({NoFile})

NextEdit ==
    \/ \E t \in Solo, f \in EditFinds, r \in EditRepls, a \in BOOLEAN :
            EditPage(t, f, r, a)
    \/ \E t \in Solo, f \in EditFinds, r \in EditRepls, a \in BOOLEAN :
            FindReplace(t, f, r, a)
    \/ \E t \in Solo : Put(t)

SpecEdit == InitEdit /\ [][NextEdit]_vars

\* The substring edit of task t's call has run: the cache file was there
\* (confluence_edit_page), the page was fetched (confluence_find_replace).
EditRan(t) ==
    \/ loc[t].tool = "edit_page" /\ loc[t].pre # NoFile
    \/ loc[t].tool = "find_replace" /\ http[t] # <<>> /\ Is2xx(http[t][1].status)

\* The tree the edit left: the cache file, or the tree handed to the push.
EditedTree(t) ==
    IF loc[t].tool = "edit_page" THEN cache.adf
    ELSE IF loc[t].count > 0 THEN loc[t].payload.body
    ELSE loc[t].doc

NotFound(t) == pc[t] = "idle" /\ result[t].outcome = "not_found"

\* C9: substring replace with find = "" never matches: not found, no leaf
\* changed, nothing written, nothing pushed.
C9_EmptyFindNeverMatches ==
    \A t \in Solo :
        (EditRan(t) /\ loc[t].args.find = <<>>) =>
            /\ NotFound(t)
            /\ EditedTree(t) = loc[t].doc
            /\ cache = loc[t].pre
            /\ SelectSeq(http[t], IsPut) = <<>>

MatchAt(s, find, i) == SubSeq(s, i + 1, i + Len(find)) = find
FirstAt(s, find) ==
    CHOOSE i \in 0..(Len(s) - Len(find)) :
        MatchAt(s, find, i) /\ \A j \in 0..(i - 1) : ~MatchAt(s, find, j)
LeftmostReplaced(s, find, replace) ==
    SubSeq(s, 1, FirstAt(s, find)) \o replace
        \o SubSeq(s, FirstAt(s, find) + Len(find) + 1, Len(s))

\* C10: with replace_all = False on a tree where some text leaf contains
\* find, the first such leaf in depth-first pre-order has its leftmost
\* occurrence replaced, every other leaf and every node is as before, and
\* the count reported is 1.
C10_FirstOnly ==
    \A t \in Solo :
        LET a == loc[t].args
            old == LeavesOf(loc[t].doc)
            new == LeavesOf(EditedTree(t))
            hits == {i \in 1..Len(old) : Contains(a.find, old[i])}
        IN  (EditRan(t) /\ ~a.replace_all /\ hits # {}) =>
                LET k == CHOOSE i \in hits : \A j \in hits : i <= j
                IN  /\ ~NotFound(t)
                    /\ ShapeOf(EditedTree(t)) = ShapeOf(loc[t].doc)
                    /\ Len(new) = Len(old)
                    /\ new[k] = LeftmostReplaced(old[k], a.find, a.replace)
                    /\ \A j \in 1..Len(old) : j # k => new[j] = old[j]
                    /\ loc[t].tool = "find_replace" => loc[t].count = 1
                    /\ result[t].outcome \in {"edited", "pushed"}
                            => result[t].count = 1

\* 'a' -> 'b' in a tree whose first leaf lacks 'a' and whose second leaf
\* holds it twice: only the second leaf changes, 'aa' to 'ba'.
C10_Witness ==
    \E t \in Solo :
        /\ EditRan(t) /\ ~loc[t].args.replace_all
        /\ loc[t].args.find = <<"a">> /\ loc[t].args.replace = <<"b">>
        /\ LeavesOf(loc[t].doc) = <<<<"b">>, <<"a", "a">>>>
        /\ LeavesOf(EditedTree(t)) = <<<<"b">>, <<"b", "a">>>>
        /\ result[t].outcome \in {"edited", "pushed"} /\ result[t].count = 1

PersistedFiles ==
    {NoFile, [access_token |-> 0, refresh_token |-> 0, expires_at |-> 360]}

InitOAuth == InitPages /\ cache = NoFile /\ InitTokens(PersistedFiles)

NextOAuth ==
    \/ \E c \in Callers : EnsureValid(c)
    \/ \E c \in Callers : LockAcquired(c)
    \/ \E c \in Callers : RefreshAnswer(c)
    \/ Tick
    \/ Restart

SpecOAuth == InitOAuth /\ [][NextOAuth]_vars

\* C5: callers that overlap in ensure_valid() under an expired token, with
\* the refresh request answered by a success: one request is sent to the
\* token endpoint and every caller returns the token it issued.
C5_SingleFlight ==
    (Cardinality(burst.callers) >= 2 /\ ~burst.failed) =>
        /\ burst.sent <= 1
        /\ AllIdle =>
            /\ burst.sent = 1
            /\ issued # burst.before
            /\ \A c \in burst.callers :
                /\ ores[c].kind = "token"
                /\ ores[c].token = issued

\* Three overlapping callers have all returned the one new token.
C5_Witness ==
    /\ burst.callers = Callers /\ AllIdle /\ ~burst.failed /\ burst.sent = 1
    /\ \A c \in Callers : ores[c].kind = "token" /\ ores[c].token = tok.access_token
    /\ \E c \in Callers : olog[c] = <<>> /\ ~entry[c].free

\* C6: a call of ensure_valid() sends a refresh request only when the
\* clock is within 300 seconds of expires_at or past it, and then does
\* send one when the lock is free; otherwise it returns the cached access
\* token at once, with no request.
C6_RefreshIffExpired ==
    \A c \in Callers :
        entry[c].now >= 0 =>
            LET remaining == entry[c].expires_at - entry[c].now
            IN  /\ Len(olog[c]) <= 1
                /\ remaining > 300 =>
                    /\ olog[c] = <<>> /\ opc[c] = "idle"
                    /\ ores[c].kind = "token"
                    /\ ores[c].token = entry[c].access_token
                /\ (remaining <= 300 /\ entry[c].free) => Len(olog[c]) = 1
                /\ Len(olog[c]) = 1 => remaining <= 300

\* One call found the token expiring in 6 minutes and returned it; a later
\* call found it expiring in 4 minutes and sent a refresh request.
C6_Witness ==
    \E c, d \in Callers :
        /\ entry[c].now >= 0 /\ entry[c].expires_at - entry[c].now = 360
        /\ olog[c] = <<>> /\ ores[c].kind = "token"
        /\ entry[d].now > entry[c].now
        /\ entry[d].expires_at - entry[d].now = 240
        /\ Len(olog[d]) = 1

\* C7: once a refresh has succeeded the token file holds the full state of
\* the manager, rotated refresh token included, whenever a caller holds a
\* token the refresh issued; a manager constructed from the file gets it.
C7_PersistedBeforeReturn ==
    /\ issued > 0 => disk # NoFile /\ _load_from_disk(disk) = tok
    /\ \A c \in Callers :
        (ores[c].kind = "token" /\ ores[c].token > 0) =>
            /\ disk # NoFile
            /\ disk.access_token >= ores[c].token

\* A manager constructed after a rotating refresh holds the rotated token.
C7_Witness ==
    /\ AllIdle /\ issued > 0
    /\ \A c \in Callers : ores[c] = NoAnswer
    /\ tok.refresh_token > 0 /\ tok = disk

\* C8: a refresh answered with a non-2xx status ends the call with the
\* refresh-failure error carrying that status, with no second request, the
\* lock released, and the 'OAuth token refresh failed' text at the tool.
C8_RefreshFailure ==
    \A c \in Callers :
        /\ ores[c].kind = "error" =>
            /\ Len(olog[c]) = 1
            /\ olog[c][1] \in RefreshErrors
            /\ ores[c].status = olog[c][1]
            /\ ores[c].text = "OAuth token refresh failed"
            /\ opc[c] = "idle" /\ lock # c
        /\ (olog[c] # <<>> /\ olog[c][Len(olog[c])] \in RefreshErrors)
                => ores[c].kind = "error"

\* A refresh failed with 400, and a later call refreshed with success.
C8_Witness ==
    \E c, d \in Callers :
        /\ ores[c].kind = "error" /\ ores[c].status = 400
        /\ entry[d].now > entry[c].now /\ entry[d].free
        /\ olog[d] = <<200>> /\ ores[d].kind = "token"

\* --------------------------------------------------- replace_all = True
\* Non-overlapping occurrences of a non-empty find, taken leftmost first,
\* and the text with each of them replaced.
RECURSIVE Occurrences(_, _)
Occurrences(s, find) ==
    IF ~Contains(find, s) THEN 0
    ELSE 1 + Occurrences(SubSeq(s, FirstAt(s, find) + Len(find) + 1, Len(s)), find)

RECURSIVE AllReplaced(_, _, _)
AllReplaced(s, find, replace) ==
    IF ~Contains(find, s) THEN s
    ELSE SubSeq(s, 1, FirstAt(s, find)) \o replace
            \o AllReplaced(SubSeq(s, FirstAt(s, find) + Len(find) + 1, Len(s)),
                           find, replace)

RECURSIVE SumOccurrences(_, _)
SumOccurrences(leaves, find) ==
    IF leaves = <<>> THEN 0
    ELSE Occurrences(Head(leaves), find) + SumOccurrences(Tail(leaves), find)

\* C11: with replace_all = True (and a non-empty find) every text leaf ends
\* with each non-overlapping occurrence of find replaced, and the count
\* reported is the sum over the leaves of their occurrences before the edit.
C11_ReplaceAllCount ==
    \A t \in Solo :
        LET a == loc[t].args
            old == LeavesOf(loc[t].doc)
            new == LeavesOf(EditedTree(t))
            total == SumOccurrences(old, a.find)
        IN  (EditRan(t) /\ a.replace_all /\ a.find # <<>>) =>
                /\ Len(new) = Len(old)
                /\ \A j \in 1..Len(old) :
                        new[j] = AllReplaced(old[j], a.find, a.replace)
                /\ NotFound(t) <=> total = 0
                /\ loc[t].tool = "find_replace" => loc[t].count = total
                /\ result[t].outcome \in {"edited", "pushed"}
                        => result[t].count = total

\* Two paragraphs 'aa', 'a' -> 'b': both read 'bb' and the count is 4.
C11_Witness ==
    \E t \in Solo :
        /\ EditRan(t) /\ loc[t].args.replace_all
        /\ loc[t].args.find = <<"a">> /\ loc[t].args.replace = <<"b">>
        /\ loc[t].doc = make_adf(<<make_paragraph(<<"a", "a">>),
                                   make_paragraph(<<"a", "a">>)>>)
        /\ LeavesOf(EditedTree(t)) = <<<<"b", "b">>, <<"b", "b">>>>
        /\ result[t].outcome = "pushed" /\ result[t].count = 4

\* ------------------------------------------- the fetch-edit-push tools
\* str.lower() and str.strip() on the characters drawn.
Lower(s) ==
    [i \in DOMAIN s |-> IF s[i] = "A" THEN "a" ELSE IF s[i] = "B" THEN "b" ELSE s[i]]

Whitespace == {" ", "\n", "\t"}
RECURSIVE LStrip(_)
LStrip(s) == IF s # <<>> /\ Head(s) \in Whitespace THEN LStrip(Tail(s)) ELSE s
RECURSIVE RStrip(_)
RStrip(s) ==
    IF s # <<>> /\ s[Len(s)] \in Whitespace THEN RStrip(SubSeq(s, 1, Len(s) - 1)) ELSE s
Strip(s) == RStrip(LStrip(s))

\* dict.get(key, default) on a node or on its attrs.
Get(d, key, default) == IF key \in DOMAIN d THEN d[key] ELSE default
Attr(node, key, default) ==
    IF "attrs" \in DOMAIN node THEN Get(node.attrs, key, default) ELSE default

\* str.split("\n"): the lines of s, at least one.
RECURSIVE Split(_)
Split(s) ==
    IF \A i \in DOMAIN s : s[i] # "\n" THEN <<s>>
    ELSE LET at == CHOOSE i \in DOMAIN s :
                        s[i] = "\n" /\ \A j \in 1..(i - 1) : s[j] # "\n"
         IN  <<SubSeq(s, 1, at - 1)>> \o Split(SubSeq(s, at + 1, Len(s)))

\* "  " * depth
RECURSIVE Indent(_)
Indent(depth) == IF depth <= 0 THEN <<>> ELSE <<" ", " ">> \o Indent(depth - 1)

\* The listItem branch: the first line behind the bullet, the other lines
\* two columns further in.
RECURSIVE ContinuationLines(_, _)
ContinuationLines(lines, depth) ==
    IF lines = <<>> THEN <<>>
    ELSE Indent(depth) \o <<" ", " ">> \o Head(lines) \o <<"\n">>
         \o ContinuationLines(Tail(lines), depth)

ListItemText(inner, depth) ==
    LET lines == Split(Strip(inner))
    IN  Indent(depth) \o <<"-", " ">> \o lines[1] \o <<"\n">>
        \o ContinuationLines(Tail(lines), depth)

\* "\n".join(f"> {line}" for line in lines)
RECURSIVE QuoteLines(_)
QuoteLines(lines) ==
    IF Len(lines) = 1 THEN <<">", " ">> \o lines[1]
    ELSE <<">", " ">> \o Head(lines) \o <<"\n">> \o QuoteLines(Tail(lines))

\* The three backquotes of a code fence, as one piece.
Fence == <<"fence">>

\* _extract_text_from_adf; a type without a branch renders its content
\* (the function's last line).
RECURSIVE _extract_text_from_adf(_, _)
RECURSIVE ExtractList(_, _)
RECURSIVE JoinCells(_, _)
_extract_text_from_adf(node, depth) ==
    LET content == IF HasContent(node) THEN node.content ELSE <<>>
        inner == ExtractList(content, depth)
    IN  CASE node.type = "text" -> Get(node, "text", <<>>)
          [] node.type = "mention" -> Attr(node, "text", <<>>)
          [] node.type = "emoji" -> Attr(node, "shortName", <<>>)
          [] node.type = "inlineCard" -> Attr(node, "url", <<>>)
          [] node.type = "hardBreak" -> <<"\n">>
          [] node.type = "status" -> <<"[">> \o Attr(node, "text", <<>>) \o <<"]">>
          [] node.type \in {"paragraph", "heading"} -> inner \o <<"\n">>
          [] node.type \in {"bulletList", "orderedList", "taskList"} -> inner
          [] node.type = "listItem" -> ListItemText(inner, depth)
          [] node.type = "taskItem" ->
                <<" ", " ">>
                \o (IF Attr(node, "state", "TODO") = "DONE"
                    THEN <<"[", "x", "]">> ELSE <<"[", " ", "]">>)
                \o <<" ">> \o Strip(inner) \o <<"\n">>
          [] node.type = "table" -> inner \o <<"\n">>
          [] node.type = "tableRow" -> JoinCells(content, depth) \o <<"\n">>
          [] node.type \in {"tableCell", "tableHeader"} -> inner
          [] node.type = "codeBlock" ->
                Fence \o Attr(node, "language", <<>>) \o <<"\n">>
                \o inner \o Fence \o <<"\n">>
          [] node.type = "blockquote" -> QuoteLines(Split(Strip(inner))) \o <<"\n">>
          [] node.type = "rule" -> <<"-", "-", "-", "\n">>
          [] node.type = "panel" ->
                <<"[">> \o Attr(node, "panelType", <<"i", "n", "f", "o">>)
                \o <<"]", " ">> \o inner
          [] node.type = "expand" ->
                LET title == Attr(node, "title", <<>>)
                IN  IF title # <<>> THEN <<"▸", " ">> \o title \o <<"\n">> \o inner
                    ELSE inner
          [] OTHER -> inner
ExtractList(list, depth) ==
    IF list = <<>> THEN <<>>
    ELSE _extract_text_from_adf(Head(list), depth) \o ExtractList(Tail(list), depth)
\* "\t".join(_extract_text_from_adf(c, depth).strip() for c in cells)
JoinCells(cells, depth) ==
    IF cells = <<>> THEN <<>>
    ELSE Strip(_extract_text_from_adf(Head(cells), depth))
         \o (IF Len(cells) > 1 THEN <<"\t">> ELSE <<>>)
         \o JoinCells(Tail(cells), depth)

\* re.compile and Pattern.subn on the patterns drawn: a literal string, or
\* one character followed by '+'; an unclosed '(' does not compile.
Compiles(pattern) ==
    Cardinality({i \in DOMAIN pattern : pattern[i] = "("})
        = Cardinality({i \in DOMAIN pattern : pattern[i] = ")"})

RECURSIVE RunLen(_, _)
RunLen(s, c) == IF s # <<>> /\ Head(s) = c THEN 1 + RunLen(Tail(s), c) ELSE 0

\* Length of the match of pattern at the start of s; 0 when there is none.
MatchLen(pattern, s) ==
    IF Len(pattern) = 2 /\ pattern[2] = "+" THEN RunLen(s, pattern[1])
    ELSE IF StartsWith(s, pattern) THEN Len(pattern) ELSE 0

RECURSIVE subn(_, _, _)
subn(pattern, replacement, s) ==
    IF s = <<>> THEN [text |-> <<>>, n |-> 0]
    ELSE LET m == MatchLen(pattern, s)
         IN  IF m > 0
             THEN LET rest == subn(pattern, replacement, Drop(s, m))
                  IN  [text |-> replacement \o rest.text, n |-> rest.n + 1]
             ELSE LET rest == subn(pattern, replacement, Tail(s))
                  IN  [text |-> <<Head(s)>> \o rest.text, n |-> rest.n]

\* confluence_regex_replace._regex_replace; the result is [node, count].
RECURSIVE _regex_replace(_, _, _, _)
RECURSIVE RegexReplaceList(_, _, _, _)
_regex_replace(node, pattern, replacement, count) ==
    LET r == IF IsTextLeaf(node) THEN subn(pattern, replacement, node.text)
             ELSE [text |-> <<>>, n |-> 0]
        here == IF r.n > 0 THEN [node EXCEPT !.text = r.text] ELSE node
    IN  IF HasContent(node)
        THEN LET sub == RegexReplaceList(node.content, pattern, replacement,
                                         count + r.n)
             IN  [node |-> [here EXCEPT !.content = sub.list], count |-> sub.count]
        ELSE [node |-> here, count |-> count + r.n]
RegexReplaceList(list, pattern, replacement, count) ==
    IF list = <<>> THEN [list |-> <<>>, count |-> count]
    ELSE LET h == _regex_replace(Head(list), pattern, replacement, count)
             r == RegexReplaceList(Tail(list), pattern, replacement, h.count)
         IN  [list |-> <<h.node>> \o r.list, count |-> r.count]

\* d[key] = value on a dict: the key is added when it is not there.
SetKey(d, key, value) ==
    [k \in DOMAIN d \cup {key} |-> IF k = key THEN value ELSE d[k]]

\* confluence_replace_mention._replace_mentions; the result is [node, count].
MentionMatches(node, find_user) ==
    /\ node.type = "mention" /\ "attrs" \in DOMAIN node
    /\ Contains(Lower(find_user), Lower(Attr(node, "text", <<>>)))

RECURSIVE _replace_mentions(_, _, _, _, _)
RECURSIVE ReplaceMentionsList(_, _, _, _, _)
_replace_mentions(node, find_user, new_account_id, new_display, count) ==
    LET hit == MentionMatches(node, find_user)
        here == IF hit
                THEN [node EXCEPT !.attrs =
                        SetKey(SetKey(node.attrs, "id", new_account_id),
                               "text", <<"@">> \o new_display)]
                ELSE node
        c == IF hit THEN count + 1 ELSE count
    IN  IF HasContent(node)
        THEN LET sub == ReplaceMentionsList(node.content, find_user,
                                            new_account_id, new_display, c)
             IN  [node |-> [here EXCEPT !.content = sub.list], count |-> sub.count]
        ELSE [node |-> here, count |-> c]
ReplaceMentionsList(list, find_user, new_account_id, new_display, count) ==
    IF list = <<>> THEN [list |-> <<>>, count |-> count]
    ELSE LET h == _replace_mentions(Head(list), find_user, new_account_id,
                                    new_display, count)
             r == ReplaceMentionsList(Tail(list), find_user, new_account_id,
                                      new_display, h.count)
         IN  [list |-> <<h.node>> \o r.list, count |-> r.count]

\* confluence_update_task._update_tasks; the result is [node, count].
TaskMatches(node, task_text) ==
    /\ node.type = "taskItem" /\ "attrs" \in DOMAIN node
    /\ Contains(Lower(task_text), Lower(Strip(_extract_text_from_adf(node, 0))))

RECURSIVE _update_tasks(_, _, _, _)
RECURSIVE UpdateTasksList(_, _, _, _)
_update_tasks(node, task_text, state, count) ==
    LET hit == TaskMatches(node, task_text)
        here == IF hit
                THEN [node EXCEPT !.attrs = SetKey(node.attrs, "state", state)]
                ELSE node
        c == IF hit THEN count + 1 ELSE count
    IN  IF HasContent(node)
        THEN LET sub == UpdateTasksList(node.content, task_text, state, c)
             IN  [node |-> [here EXCEPT !.content = sub.list], count |-> sub.count]
        ELSE [node |-> here, count |-> c]
UpdateTasksList(list, task_text, state, count) ==
    IF list = <<>> THEN [list |-> <<>>, count |-> count]
    ELSE LET h == _update_tasks(Head(list), task_text, state, count)
             r == UpdateTasksList(Tail(list), task_text, state, h.count)
         IN  [list |-> <<h.node>> \o r.list, count |-> r.count]

\* confluence_add_link: the link leaf, and _insert_after.  A node with a
\* content list has its own text children tried first, then its children
\* are descended into in order; the result is [node, inserted].
LinkNode(link_text, url) ==
    [type |-> "text", text |-> link_text,
     marks |-> <<[type |-> "link", attrs |-> [href |-> url]]>>]

AnchorIn(child, after_text) ==
    child.type = "text" /\ Contains(after_text, Get(child, "text", <<>>))

\* text.index(after_text) + len(after_text)
SplitAt(text, after_text) == FirstAt(text, after_text) + Len(after_text)

\* (WithoutMarks: the split that forgets the marks of the leaf it splits.)
WithoutMarks(child, text) == [type |-> "text", text |-> text]

WithMarksOf(child, text) ==
    IF "marks" \in DOMAIN child
    THEN [type |-> "text", text |-> text, marks |-> child.marks]
    ELSE [type |-> "text", text |-> text]

SplitLeaf(child, link_node, after_text) ==
    LET idx == SplitAt(child.text, after_text)
        before == SubSeq(child.text, 1, idx)
        after == SubSeq(child.text, idx + 1, Len(child.text))
    IN  (IF before # <<>> THEN <<WithMarksOf(child, before)>> ELSE <<>>)
        \o <<[type |-> "text", text |-> <<" ">>], link_node>>
        \o (IF after # <<>> THEN <<WithMarksOf(child, after)>> ELSE <<>>)

RECURSIVE _insert_after(_, _, _, _)
RECURSIVE InsertAfterList(_, _, _, _)
_insert_after(node, link_node, after_text, inserted) ==
    IF inserted \/ ~HasContent(node) THEN [node |-> node, inserted |-> inserted]
    ELSE LET hits == {i \in DOMAIN node.content : AnchorIn(node.content[i], after_text)}
         IN  IF hits # {}
             THEN LET i == CHOOSE k \in hits : \A j \in hits : k <= j
                  IN  [node |-> [node EXCEPT !.content =
                            SubSeq(@, 1, i - 1)
                            \o SplitLeaf(@[i], link_node, after_text)
                            \o SubSeq(@, i + 1, Len(@))],
                       inserted |-> TRUE]
             ELSE LET sub == InsertAfterList(node.content, link_node, after_text, FALSE)
                  IN  [node |-> [node EXCEPT !.content = sub.list],
                       inserted |-> sub.inserted]
InsertAfterList(list, link_node, after_text, inserted) ==
    IF list = <<>> THEN [list |-> <<>>, inserted |-> inserted]
    ELSE LET h == _insert_after(Head(list), link_node, after_text, inserted)
             r == InsertAfterList(Tail(list), link_node, after_text, h.inserted)
         IN  [list |-> <<h.node>> \o r.list, inserted |-> r.inserted]

\* ------------------------------------------------------------ table tools
\* _get_table_nodes: the table nodes in depth-first pre-order, each as the
\* path of child indices that leads to it from the root.
RECURSIVE TablePaths(_, _)
RECURSIVE TablePathsList(_, _, _)
TablePaths(node, path) ==
    (IF node.type = "table" THEN <<path>> ELSE <<>>)
    \o (IF HasContent(node) THEN TablePathsList(node.content, path, 1) ELSE <<>>)
TablePathsList(list, path, i) ==
    IF i > Len(list) THEN <<>>
    ELSE TablePaths(list[i], Append(path, i)) \o TablePathsList(list, path, i + 1)
_get_table_nodes(adf) == TablePaths(adf, <<>>)

RECURSIVE NodeAt(_, _)
NodeAt(node, path) ==
    IF path = <<>> THEN node ELSE NodeAt(node.content[Head(path)], Tail(path))

\* The tree with the node at path replaced: the tools change the table
\* object that _get_table_nodes returned, which is the one in the tree.
RECURSIVE ReplaceAt(_, _, _)
ReplaceAt(node, path, new) ==
    IF path = <<>> THEN new
    ELSE [node EXCEPT !.content[Head(path)] = ReplaceAt(@, Tail(path), new)]

\* list[i] and list.pop(i): a negative index counts from the end, and an
\* index outside -len..len-1 raises IndexError.  The position is 1-based.
PyIndexOk(len, i) == i >= -len /\ i < len
PyIndex(len, i) == IF i >= 0 THEN i + 1 ELSE len + i + 1

\* list.insert(i, x): the index is clamped into 0..len.
PyInsertPos(len, i) ==
    IF i >= 0 THEN (IF i > len THEN len ELSE i)
    ELSE (IF len + i < 0 THEN 0 ELSE len + i)
InsertAt(list, pos, x) ==
    SubSeq(list, 1, pos) \o <<x>> \o SubSeq(list, pos + 1, Len(list))

CellParagraph(value) ==
    [type |-> "paragraph",
     content |-> IF value # <<>> THEN <<[type |-> "text", text |-> value]>> ELSE <<>>]
_build_table_cell(value) ==
    [type |-> "tableCell", content |-> <<CellParagraph(value)>>]
_build_table_row(values) ==
    [type |-> "tableRow",
     content |-> [i \in DOMAIN values |-> _build_table_cell(values[i])]]

\* The outcome of a tool's edit of the fetched tree: what it returns at
\* once, or the tree and the number it goes on to push.
Edited(node, count) == [outcome |-> "ok", node |-> node, count |-> count]
Refused(outcome) == [outcome |-> outcome, node |-> make_adf(<<>>), count |-> 0]

RowsOf(table) == Get(table, "content", <<>>)

\* confluence_update_table_cell, lines 1166-1189.
UpdateCellEdit(adf, row, col, value, table_index) ==
    LET tables == _get_table_nodes(adf)
    IN  IF tables = <<>> THEN Refused("no_tables")
        ELSE IF table_index >= Len(tables) THEN Refused("out_of_range")
        ELSE IF ~PyIndexOk(Len(tables), table_index) THEN Refused("raised")
        ELSE LET tp == tables[PyIndex(Len(tables), table_index)]
                 rows == RowsOf(NodeAt(adf, tp))
             IN  IF row >= Len(rows) THEN Refused("out_of_range")
                 ELSE IF ~PyIndexOk(Len(rows), row) THEN Refused("raised")
                 ELSE LET r == PyIndex(Len(rows), row)
                          cells == Get(rows[r], "content", <<>>)
                      IN  IF col >= Len(cells) THEN Refused("out_of_range")
                          ELSE IF ~PyIndexOk(Len(cells), col) THEN Refused("raised")
                          ELSE LET c == PyIndex(Len(cells), col)
                                   cell == [cells[c] EXCEPT !.content =
                                                <<CellParagraph(value)>>]
                               IN  Edited(ReplaceAt(adf, tp \o <<r, c>>, cell), 0)

\* confluence_insert_table_row, lines 1223-1241; count is `pos`.
InsertRowEdit(adf, row_index, values, table_index) ==
    LET tables == _get_table_nodes(adf)
    IN  IF tables = <<>> THEN Refused("no_tables")
        ELSE IF table_index >= Len(tables) THEN Refused("out_of_range")
        ELSE IF ~PyIndexOk(Len(tables), table_index) THEN Refused("raised")
        ELSE LET tp == tables[PyIndex(Len(tables), table_index)]
                 table == NodeAt(adf, tp)
                 rows == RowsOf(table)
                 new_row == _build_table_row(values)
                 append == row_index = -1 \/ row_index >= Len(rows)
                 new_rows == IF append THEN Append(rows, new_row)
                             ELSE InsertAt(rows, PyInsertPos(Len(rows), row_index),
                                           new_row)
                 pos == IF append THEN Len(rows) ELSE row_index
             IN  Edited(ReplaceAt(adf, tp, [table EXCEPT !.content = new_rows]), pos)

\* confluence_delete_table_row, lines 1271-1284.
DeleteRowEdit(adf, row_index, table_index) ==
    LET tables == _get_table_nodes(adf)
    IN  IF tables = <<>> THEN Refused("no_tables")
        ELSE IF table_index >= Len(tables) THEN Refused("out_of_range")
        ELSE IF ~PyIndexOk(Len(tables), table_index) THEN Refused("raised")
        ELSE LET tp == tables[PyIndex(Len(tables), table_index)]
                 table == NodeAt(adf, tp)
                 rows == RowsOf(table)
             IN  IF row_index >= Len(rows) THEN Refused("out_of_range")
                 ELSE IF ~PyIndexOk(Len(rows), row_index) THEN Refused("raised")
                 ELSE LET r == PyIndex(Len(rows), row_index)
                          kept == SubSeq(rows, 1, r - 1) \o SubSeq(rows, r + 1, Len(rows))
                      IN  Edited(ReplaceAt(adf, tp, [table EXCEPT !.content = kept]), 0)

\* ------------------------------------------------- the documents fetched
MaxOrdinal == 3     \* largest row, column and table ordinal drawn

Bold(s) == [type |-> "text", text |-> s, marks |-> <<[type |-> "strong"]>>]
Mention(id, text) == [type |-> "mention", attrs |-> [id |-> id, text |-> text]]
MentionNoText(id) == [type |-> "mention", attrs |-> [id |-> id]]
TaskItem(state, s) ==
    [type |-> "taskItem", attrs |-> [localId |-> "1", state |-> state],
     content |-> <<make_text(s)>>]
Table(rows) == [type |-> "table", content |-> rows]

\* A paragraph of marked text and two mentions (the display text attr is
\* optional in ADF), and a task list.
DocInline ==
    make_adf(<<
        make_node("paragraph",
            <<Bold(<<"a", "b", "a">>), Mention("u1", <<"@", "a">>),
              MentionNoText("u2"), make_text(<<"b">>)>>),
        make_node("taskList",
            <<TaskItem("TODO", <<"a">>), TaskItem("DONE", <<"b">>)>>)>>)

\* A table of two rows by two columns, a paragraph, a table of one cell.
DocTables ==
    make_adf(<<
        Table(<<_build_table_row(<<<<"a">>, <<"b">>>>),
                _build_table_row(<<<<"b">>, <<"a", "a">>>>)>>),
        make_paragraph(<<"a", "a">>),
        Table(<<_build_table_row(<<<<"b">>>>)>>)>>)

\* A quote holding a paragraph, and after it a text leaf next to the quote.
DocMixed ==
    make_adf(<<make_node("blockquote", <<make_paragraph(<<"a", "b">>)>>),
               make_text(<<"b">>)>>)

ToolDocs == {DocInline, DocTables, DocMixed}

Patterns == {<<"(">>, <<"a">>, <<"a", "+">>, <<"c">>}
Replacements == {<<>>, <<"b">>}
Mark == [accountId |-> "u7", displayName |-> <<"M">>]
Mara == [accountId |-> "u8", displayName |-> <<"M", "a">>]
UserResults == {<<>>, <<Mark>>, <<Mark, Mara>>}
FindUsers == {<<>>, <<"A">>, <<"c">>}
TaskTexts == {<<"a">>, <<"B">>, <<"c">>}
States == {"done", "TODO", "WIP"}
Anchors == {<<>>, <<"a">>, <<"b">>, <<"b", "a">>, <<"c">>}
Ordinals == (-MaxOrdinal)..MaxOrdinal
TableOrdinals == -1..2
CellValues == {<<>>, <<"c">>}
RowValues == {<<>>, <<<<"c">>>>, <<<<"c">>, <<>>>>}

\* str.upper() on the state arguments drawn.
Upper(state) == IF state = "done" THEN "DONE" ELSE state

InitTools ==
    /\ \E d \in ToolDocs :
        remote = [id |-> PageId, title |-> "T", version |-> 1,
                  spaceId |-> "SPACE1", body |-> d]
    /\ cache \in {NoFile,
                  [id |-> PageId, title |-> "T", version |-> 1,
                   spaceId |-> "LOCAL", adf |-> InitDoc]}
    /\ pc = [t \in Tasks |-> "idle"]
    /\ loc = [t \in Tasks |-> NoLoc]
    /\ result = [t \in Tasks |-> NoResult]
    /\ http = [t \in Tasks |-> <<>>]
    /\ budget = 1
    /\ InitTokens({NoFile})

\* A tool that returns before its `async with _make_client(...)`.
Rejected(t, tool, args, outcome) ==
    /\ pc[t] = "idle" /\ budget > 0
    /\ budget' = budget - 1
    /\ http' = [http EXCEPT ![t] = <<>>]
    /\ loc' = [loc EXCEPT ![t] =
            [NoLoc EXCEPT !.tool = tool, !.pre = cache, !.args = args]]
    /\ Returns(t, tool, outcome, 0, 0, 0)
    /\ UNCHANGED <<remote, cache, pc, ovars>>

\* What a tool does between the answers to its GETs and its next await:
\* the HTTP error, the return of a refused edit, or the first PUT.
AfterFetch(t, tool, args, ok, status, e, message) ==
    LET l == [NoLoc EXCEPT !.tool = tool, !.pre = cache, !.args = args,
                           !.doc = IF ok THEN remote.body ELSE NoLoc.doc]
    IN  IF ~ok
        THEN /\ Returns(t, tool, "http_error", status, 0, 0)
             /\ loc' = [loc EXCEPT ![t] = l]
             /\ pc' = pc
        ELSE IF e.outcome # "ok"
        THEN /\ Returns(t, tool, e.outcome, 0, 0, 0)
             /\ loc' = [loc EXCEPT ![t] = l]
             /\ pc' = pc
        ELSE /\ loc' = [loc EXCEPT ![t] =
                    [l EXCEPT !.payload = Payload(PageId, remote.title, e.node,
                                                  remote.version, message),
                              !.known = remote.version, !.space = remote.spaceId,
                              !.count = e.count]]
             /\ pc' = [pc EXCEPT ![t] = "put1"]
             /\ result' = [result EXCEPT ![t] = NoResult]

\* _get_page_raw, the tool's edit of the parsed tree, and the first PUT
\* of _push_page_update on its way.
FetchEditPush(t, tool, args, e, message) ==
    /\ pc[t] = "idle" /\ budget > 0
    /\ budget' = budget - 1
    /\ \E status \in {200} \cup ErrStatus :
        /\ http' = [http EXCEPT ![t] = <<Req("GET", remote.version, status)>>]
        /\ AfterFetch(t, tool, args, Is2xx(status), status, e, message)
    /\ UNCHANGED <<remote, cache, ovars>>

\* confluence_regex_replace: the pattern is compiled before the client is
\* made.
RegexEdit(adf, pattern, replacement) ==
    LET r == _regex_replace(adf, pattern, replacement, 0)
    IN  IF r.count = 0 THEN Refused("not_found") ELSE Edited(r.node, r.count)

RegexReplace(t, pattern, replacement) ==
    LET args == [pattern |-> pattern, replacement |-> replacement]
    IN  IF ~Compiles(pattern)
        THEN Rejected(t, "regex_replace", args, "rejected")
        ELSE FetchEditPush(t, "regex_replace", args,
                           RegexEdit(remote.body, pattern, replacement),
                           "Regex replace")

\* confluence_update_task: the state is checked before the client is made.
\* (TaskEditPushesAnyway: the tool without its `if count == 0` return.)
TaskEditPushesAnyway(adf, task_text, state) ==
    LET r == _update_tasks(adf, task_text, state, 0)
    IN  Edited(r.node, r.count)

TaskEdit(adf, task_text, state) ==
    LET r == _update_tasks(adf, task_text, state, 0)
    IN  IF r.count = 0 THEN Refused("not_found") ELSE Edited(r.node, r.count)

\* (UpdateTaskUnchecked: the tool without its test of the state.)
UpdateTaskUnchecked(t, task_text, state) ==
    FetchEditPush(t, "update_task", [task_text |-> task_text, state |-> state],
                  TaskEdit(remote.body, task_text, Upper(state)), "Set task")

UpdateTask(t, task_text, state) ==
    LET args == [task_text |-> task_text, state |-> state]
    IN  IF Upper(state) \notin {"DONE", "TODO"}
        THEN Rejected(t, "update_task", args, "rejected")
        ELSE FetchEditPush(t, "update_task", args,
                           TaskEdit(remote.body, task_text, Upper(state)),
                           "Set task")

\* confluence_replace_mention: the page and the user search are fetched
\* together; no user or several users end the call before the walk.
MentionEdit(adf, find_user, users) ==
    IF users = <<>> THEN Refused("user_not_found")
    ELSE IF Len(users) > 1 THEN Refused("ambiguous_user")
    ELSE LET r == _replace_mentions(adf, find_user, users[1].accountId,
                                    users[1].displayName, 0)
         IN  IF r.count = 0 THEN Refused("not_found") ELSE Edited(r.node, r.count)

ReplaceMention(t, find_user, users) ==
    /\ pc[t] = "idle" /\ budget > 0
    /\ budget' = budget - 1
    /\ \E page_status \in {200} \cup ErrStatus, user_status \in {200} \cup ErrStatus :
        /\ http' = [http EXCEPT ![t] =
                <<Req("GET", remote.version, page_status), Req("GET", 0, user_status)>>]
        /\ AfterFetch(t, "replace_mention", [find_user |-> find_user, users |-> users],
                      Is2xx(page_status) /\ Is2xx(user_status),
                      IF Is2xx(page_status) THEN user_status ELSE page_status,
                      MentionEdit(remote.body, find_user, users),
                      "Replaced mentions")
    /\ UNCHANGED <<remote, cache, ovars>>

\* confluence_add_link: after an anchor, or as a new last paragraph.
LinkEdit(adf, link_text, url, after_text) ==
    IF after_text # <<>>
    THEN LET r == _insert_after(adf, LinkNode(link_text, url), after_text, FALSE)
         IN  IF ~r.inserted THEN Refused("not_found") ELSE Edited(r.node, 0)
    ELSE Edited(SetKey(adf, "content",
                       Append(Get(adf, "content", <<>>),
                              make_node("paragraph", <<LinkNode(link_text, url)>>))),
                0)

AddLink(t, link_text, url, after_text) ==
    FetchEditPush(t, "add_link",
                  [link_text |-> link_text, url |-> url, after_text |-> after_text],
                  LinkEdit(remote.body, link_text, url, after_text), "Added link")

UpdateTableCell(t, row, col, value, table_index) ==
    FetchEditPush(t, "update_table_cell",
                  [row |-> row, col |-> col, value |-> value,
                   table_index |-> table_index],
                  UpdateCellEdit(remote.body, row, col, value, table_index),
                  "Updated table cell")

InsertTableRow(t, row_index, values, table_index) ==
    FetchEditPush(t, "insert_table_row",
                  [row_index |-> row_index, values |-> values,
                   table_index |-> table_index],
                  InsertRowEdit(remote.body, row_index, values, table_index),
                  "Inserted table row")

DeleteTableRow(t, row_index, table_index) ==
    FetchEditPush(t, "delete_table_row",
                  [row_index |-> row_index, table_index |-> table_index],
                  DeleteRowEdit(remote.body, row_index, table_index),
                  "Deleted table row")

NextTools ==
    \/ \E t \in Solo, p \in Patterns, r \in Replacements : RegexReplace(t, p, r)
    \/ \E t \in Solo, x \in TaskTexts, s \in States : UpdateTask(t, x, s)
    \/ \E t \in Solo, f \in FindUsers, u \in UserResults : ReplaceMention(t, f, u)
    \/ \E t \in Solo, a \in Anchors : AddLink(t, <<"L">>, "https://x", a)
    \/ \E t \in Solo, r \in Ordinals, c \in Ordinals, v \in CellValues,
          k \in TableOrdinals : UpdateTableCell(t, r, c, v, k)
    \/ \E t \in Solo, r \in Ordinals, v \in RowValues, k \in TableOrdinals :
            InsertTableRow(t, r, v, k)
    \/ \E t \in Solo, r \in Ordinals, k \in TableOrdinals : DeleteTableRow(t, r, k)
    \/ \E t \in Solo, f \in {<<"a">>, <<"c">>} : FindReplace(t, f, <<"b">>, TRUE)
    \/ \E t \in Solo, f \in {<<"a">>, <<"c">>} : EditPage(t, f, <<"b">>, TRUE)
    \/ \E t \in Solo : Put(t)

SpecTools == InitTools /\ [][NextTools]_vars

\* Every node of a tree, in depth-first pre-order.
RECURSIVE NodesOf(_)
RECURSIVE NodesOfList(_)
NodesOf(node) ==
    <<node>> \o (IF HasContent(node) THEN NodesOfList(node.content) ELSE <<>>)
NodesOfList(list) ==
    IF list = <<>> THEN <<>> ELSE NodesOf(Head(list)) \o NodesOfList(Tail(list))

NoNode(tree, Hit(_)) == \A i \in DOMAIN NodesOf(tree) : ~Hit(NodesOf(tree)[i])

\* Task t's call got the page it asked for (or read its cache file).
Fetched(t) ==
    IF loc[t].tool = "edit_page" THEN loc[t].pre # NoFile
    ELSE /\ http[t] # <<>> /\ http[t][1].method = "GET" /\ Is2xx(http[t][1].status)
         /\ loc[t].tool = "replace_mention" => Is2xx(http[t][2].status)

\* Whether a drawn pattern has a match in s: the literal occurs, or the
\* repeated character does.
PatternOccurs(pattern, s) ==
    IF pattern[Len(pattern)] = "+" THEN Contains(<<pattern[1]>>, s)
    ELSE Contains(pattern, s)

\* The tree the call of task t worked on holds nothing its arguments match.
ZeroMatch(t) ==
    LET a == loc[t].args
        tree == IF loc[t].tool = "edit_page" THEN loc[t].pre.adf ELSE loc[t].doc
        Leaf(n) == IsTextLeaf(n)
    IN  CASE loc[t].tool \in {"edit_page", "find_replace"} ->
                a.find # <<>>
                /\ \A i \in DOMAIN LeavesOf(tree) : ~Contains(a.find, LeavesOf(tree)[i])
          [] loc[t].tool = "regex_replace" ->
                Compiles(a.pattern)
                /\ \A i \in DOMAIN LeavesOf(tree) :
                        ~PatternOccurs(a.pattern, LeavesOf(tree)[i])
          [] loc[t].tool = "replace_mention" ->
                LET Hit(n) == MentionMatches(n, a.find_user) IN NoNode(tree, Hit)
          [] loc[t].tool = "update_task" ->
                Upper(a.state) \in {"DONE", "TODO"}
                /\ LET Hit(n) == TaskMatches(n, a.task_text) IN NoNode(tree, Hit)
          [] loc[t].tool = "add_link" ->
                a.after_text # <<>>
                /\ \A i \in DOMAIN LeavesOf(tree) :
                        ~Contains(a.after_text, LeavesOf(tree)[i])
          [] OTHER -> FALSE

\* C12: an edit that finds no match returns its not-found message at once:
\* no PUT was sent and the cache file is as it was (confluence_edit_page
\* does not rewrite it).
C12_ZeroMatchNoSideEffect ==
    \A t \in Solo :
        (Fetched(t) /\ ZeroMatch(t)) =>
            /\ pc[t] = "idle"
            /\ result[t].tool = loc[t].tool
            /\ result[t].outcome \in {"not_found", "user_not_found", "ambiguous_user"}
            /\ result[t].outcome # "not_found" =>
                    loc[t].tool = "replace_mention" /\ Len(loc[t].args.users) # 1
            /\ SelectSeq(http[t], IsPut) = <<>>
            /\ \A i \in DOMAIN http[t] : http[t][i].method = "GET"
            /\ cache = loc[t].pre
            /\ remote.body = loc[t].doc \/ loc[t].tool = "edit_page"

\* No task item of the page reads 'c': nothing was sent after the GET and
\* the cache file of an earlier fetch is still there.
C12_Witness ==
    \E t \in Solo :
        /\ loc[t].tool = "update_task" /\ Fetched(t) /\ ZeroMatch(t)
        /\ loc[t].doc = DocInline /\ loc[t].args.task_text = <<"c">>
        /\ result[t].outcome = "not_found" /\ Len(http[t]) = 1
        /\ cache # NoFile /\ cache = loc[t].pre

\* What an operation may change in a node that it matched: the text of a
\* text leaf, the id and text attrs of a mention, the state attr of a task.
MayDiffer(tool, args, before, key) ==
    CASE tool \in {"edit_page", "find_replace", "regex_replace"} ->
            IsTextLeaf(before) /\ key = "text"
      [] tool = "replace_mention" ->
            MentionMatches(before, args.find_user) /\ key \in {"id", "text"}
      [] tool = "update_task" ->
            TaskMatches(before, args.task_text) /\ key = "state"
      [] OTHER -> FALSE

\* Node `after` is node `before` but for the fields the operation may change:
\* same type, same keys, same attrs keys, same number of children.
SameButFor(tool, args, before, after) ==
    /\ after.type = before.type
    /\ DOMAIN after = DOMAIN before
    /\ \A k \in DOMAIN before \ {"content", "attrs"} :
            after[k] = before[k] \/ MayDiffer(tool, args, before, k)
    /\ HasContent(before) => Len(after.content) = Len(before.content)
    /\ "attrs" \in DOMAIN before =>
            /\ DOMAIN after.attrs = DOMAIN before.attrs
            /\ \A k \in DOMAIN before.attrs :
                    after.attrs[k] = before.attrs[k] \/ MayDiffer(tool, args, before, k)

\* C13: substring replace, regex replace, mention swap and task toggle
\* leave every node with its type, its children in number and order and
\* its attrs keys; nothing differs but the text of text leaves, the id and
\* text attrs of matching mentions, the state attr of matching tasks.
C13_StructurePreserved ==
    \A t \in Solo :
        (Fetched(t) /\ loc[t].tool \in {"edit_page", "find_replace", "regex_replace",
                                        "replace_mention", "update_task"}) =>
            LET old == NodesOf(IF loc[t].tool = "edit_page" THEN loc[t].pre.adf
                               ELSE loc[t].doc)
                new == NodesOf(EditedTree(t))
            IN  /\ Len(new) = Len(old)
                /\ \A i \in DOMAIN old :
                        SameButFor(loc[t].tool, loc[t].args, old[i], new[i])

\* The page the call of task t was made on.
PageOf(t) == IF Fetched(t) THEN loc[t].doc ELSE remote.body

TableTools == {"update_table_cell", "insert_table_row", "delete_table_row"}
InRange(i, len) == i >= 0 /\ i < len

\* The table, row or column ordinal of task t's call names nothing on the
\* page; confluence_insert_table_row takes every row ordinal.
BadOrdinal(t) ==
    LET a == loc[t].args
        tables == _get_table_nodes(PageOf(t))
        row == IF loc[t].tool = "update_table_cell" THEN a.row ELSE a.row_index
    IN  /\ loc[t].tool \in TableTools
        /\ \/ ~InRange(a.table_index, Len(tables))
           \/ /\ loc[t].tool # "insert_table_row"
              /\ LET rows == RowsOf(NodeAt(PageOf(t), tables[a.table_index + 1]))
                 IN  \/ ~InRange(row, Len(rows))
                     \/ /\ loc[t].tool = "update_table_cell"
                        /\ ~InRange(a.col, Len(Get(rows[row + 1], "content", <<>>)))

InvalidArguments(t) ==
    \/ loc[t].tool = "regex_replace" /\ ~Compiles(loc[t].args.pattern)
    \/ loc[t].tool = "update_task" /\ Upper(loc[t].args.state) \notin {"DONE", "TODO"}
    \/ BadOrdinal(t)

\* C14: a call with a pattern that does not compile, an invalid task state
\* or an invalid table, row or column ordinal returns its rejection with no
\* HTTP request sent and the cache file as it was.
C14_RejectedBeforeNetwork ==
    \A t \in Solo :
        InvalidArguments(t) =>
            /\ pc[t] = "idle"
            /\ result[t].outcome \in {"rejected", "no_tables", "out_of_range"}
            /\ http[t] = <<>>
            /\ cache = loc[t].pre

\* C15: confluence_update_table_cell and confluence_delete_table_row on a
\* page without tables, or with a table, row or column ordinal outside
\* 0..(length - 1), return 'No tables found' or 'out of range', send no
\* PUT, write no cache file and leave the page as it is.
C15_BadOrdinalFailsSafe ==
    \A t \in Solo :
        (Fetched(t) /\ BadOrdinal(t)
            /\ loc[t].tool \in {"update_table_cell", "delete_table_row"}) =>
            /\ pc[t] = "idle"
            /\ result[t].outcome =
                    IF _get_table_nodes(loc[t].doc) = <<>> THEN "no_tables"
                    ELSE "out_of_range"
            /\ SelectSeq(http[t], IsPut) = <<>>
            /\ cache = loc[t].pre
            /\ remote.body = loc[t].doc

\* C16: confluence_insert_table_row on a table of n rows gives a table of
\* n + 1 rows with the new row (a cell per value, in order) at row_index
\* when 0 <= row_index < n and at n otherwise, the n rows in their order,
\* and reports the index where the new row is.
C16_InsertRow ==
    \A t \in Solo :
        LET a == loc[t].args
            tables == _get_table_nodes(loc[t].doc)
        IN  (loc[t].tool = "insert_table_row" /\ Fetched(t)
                /\ InRange(a.table_index, Len(tables))) =>
                LET tp == tables[a.table_index + 1]
                    old == RowsOf(NodeAt(loc[t].doc, tp))
                    new == RowsOf(NodeAt(loc[t].payload.body, tp))
                    n == Len(old)
                    at == IF InRange(a.row_index, n) THEN a.row_index ELSE n
                IN  /\ pc[t] # "idle" \/ result[t].outcome \in {"pushed", "http_error"}
                    /\ Len(new) = n + 1
                    /\ new[at + 1].type = "tableRow"
                    /\ Len(new[at + 1].content) = Len(a.values)
                    /\ \A j \in DOMAIN a.values :
                            _extract_text_from_adf(new[at + 1].content[j], 0) =
                                IF a.values[j] = <<>> THEN <<"\n">>
                                ELSE a.values[j] \o <<"\n">>
                    /\ SubSeq(new, 1, at) \o SubSeq(new, at + 2, n + 1) = old
                    /\ loc[t].count = at
                    /\ result[t].outcome = "pushed" => result[t].count = at

\* The paths to the nodes of a tree.
RECURSIVE PathsOf(_, _)
PathsOf(node, path) ==
    {path} \cup
    (IF HasContent(node)
     THEN UNION {PathsOf(node.content[i], Append(path, i)) : i \in DOMAIN node.content}
     ELSE {})

\* The leaf that takes the place of part of a split leaf: the marks of the
\* original when it had marks.
PieceOf(leaf, text) ==
    [k \in DOMAIN leaf |-> IF k = "text" THEN text ELSE leaf[k]]

\* tree, with the text leaf that is child k of the node at path pp split
\* after position idx and the link put in between.
LinkSpliced(tree, pp, k, idx, link_text, url) ==
    LET parent == NodeAt(tree, pp)
        leaf == parent.content[k]
        before == SubSeq(leaf.text, 1, idx)
        after == SubSeq(leaf.text, idx + 1, Len(leaf.text))
        link == [type |-> "text", text |-> link_text,
                 marks |-> <<[type |-> "link", attrs |-> [href |-> url]]>>]
        pieces == <<PieceOf(leaf, before), [type |-> "text", text |-> <<" ">>], link>>
                  \o (IF after = <<>> THEN <<>> ELSE <<PieceOf(leaf, after)>>)
    IN  ReplaceAt(tree, pp,
            [parent EXCEPT !.content =
                SubSeq(@, 1, k - 1) \o pieces \o SubSeq(@, k + 1, Len(@))])

\* C17: confluence_add_link with an anchor that occurs in the tree puts, in
\* place of one text leaf, the leaf's text up to and including the anchor,
\* a leaf of one space, the link leaf, and the rest of the text when there
\* is any (both with the leaf's marks), and changes nothing else; without
\* an anchor it appends a paragraph holding the link leaf to the root.
C17_AddLink ==
    \A t \in Solo :
        LET a == loc[t].args
            old == loc[t].doc
            new == loc[t].payload.body
        IN  (loc[t].tool = "add_link" /\ Fetched(t)) =>
                /\ (a.after_text # <<>>
                        /\ \E i \in DOMAIN LeavesOf(old) :
                                Contains(a.after_text, LeavesOf(old)[i])) =>
                    /\ pc[t] # "idle" \/ result[t].outcome \in {"pushed", "http_error"}
                    /\ \E p \in PathsOf(old, <<>>) :
                        /\ p # <<>> /\ IsTextLeaf(NodeAt(old, p))
                        /\ \E idx \in 1..Len(NodeAt(old, p).text) :
                            /\ idx >= Len(a.after_text)
                            /\ SubSeq(NodeAt(old, p).text, idx - Len(a.after_text) + 1, idx)
                                    = a.after_text
                            /\ new = LinkSpliced(old, SubSeq(p, 1, Len(p) - 1), p[Len(p)],
                                                 idx, a.link_text, a.url)
                /\ a.after_text = <<>> =>
                    /\ pc[t] # "idle" \/ result[t].outcome \in {"pushed", "http_error"}
                    /\ new = [old EXCEPT !.content = Append(@,
                            [type |-> "paragraph",
                             content |-> <<[type |-> "text", text |-> a.link_text,
                                            marks |-> <<[type |-> "link",
                                                         attrs |-> [href |-> a.url]]>>]>>])]

\* The link after 'b' in the bold leaf 'aba': bold 'ab', a space, the link,
\* bold 'a', pushed as version 2.
C17_Witness ==
    \E t \in Solo :
        /\ loc[t].tool = "add_link" /\ loc[t].args.after_text = <<"b">>
        /\ loc[t].doc = DocInline /\ result[t].outcome = "pushed"
        /\ remote.version = 2
        /\ SubSeq(remote.body.content[1].content, 1, 4) =
                <<Bold(<<"a", "b">>), make_text(<<" ">>),
                  LinkNode(<<"L">>, "https://x"), Bold(<<"a">>)>>
        /\ Len(remote.body.content[1].content) = 7

\* ------------------------------------------------------ destructive tools
\* confluence_archive_page, confluence_move_page and
\* confluence_delete_attachment.  The attachments of the page are a fixed
\* list; the parent page is fetched like the page itself.
PreviewCalls == 2   \* tool calls in one behaviour: a preview, then the call again

Attachments == <<[id |-> "att1", title |-> "a.png"]>>
AttachmentTitles == {"a.png", "b.png"}
Mutating == {"PUT", "POST", "DELETE"}

InitDestructive ==
    /\ remote = [id |-> PageId, title |-> "T", version |-> 1,
                 spaceId |-> "SPACE1", body |-> InitDoc]
    /\ cache \in SeedCaches
    /\ pc = [t \in Tasks |-> "idle"]
    /\ loc = [t \in Tasks |-> NoLoc]
    /\ result = [t \in Tasks |-> NoResult]
    /\ http = [t \in Tasks |-> <<>>]
    /\ budget = PreviewCalls
    /\ InitTokens({NoFile})

\* A destructive tool after its GETs: the HTTP error, the not-found
\* return, the preview, or the mutating request on its way.
\* (AfterLookUnconfirmed: the tools without their `if not confirm` return.)
AfterLookUnconfirmed(t, tool, args, ok, status, found, payload, next) ==
    LET l == [NoLoc EXCEPT !.tool = tool, !.pre = cache, !.args = args,
                           !.known = remote.version, !.doc = remote.body]
    IN  IF ~ok \/ ~found
        THEN /\ Returns(t, tool, IF ~ok THEN "http_error" ELSE "not_found",
                        IF ok THEN 0 ELSE status, 0, 0)
             /\ loc' = [loc EXCEPT ![t] = l]
             /\ pc' = pc
        ELSE /\ loc' = [loc EXCEPT ![t] = [l EXCEPT !.payload = payload]]
             /\ pc' = [pc EXCEPT ![t] = next]
             /\ result' = [result EXCEPT ![t] = NoResult]

AfterLook(t, tool, args, ok, status, found, payload, next) ==
    LET l == [NoLoc EXCEPT !.tool = tool, !.pre = cache, !.args = args,
                           !.known = remote.version, !.doc = remote.body]
    IN  IF ~ok \/ ~found \/ ~args.confirm
        THEN /\ Returns(t, tool,
                        IF ~ok THEN "http_error" ELSE IF ~found THEN "not_found"
                        ELSE "preview",
                        IF ok THEN 0 ELSE status, 0, 0)
             /\ loc' = [loc EXCEPT ![t] = l]
             /\ pc' = pc
        ELSE /\ loc' = [loc EXCEPT ![t] = [l EXCEPT !.payload = payload]]
             /\ pc' = [pc EXCEPT ![t] = next]
             /\ result' = [result EXCEPT ![t] = NoResult]

ArchivePage(t, confirm) ==
    /\ pc[t] = "idle" /\ budget > 0
    /\ budget' = budget - 1
    /\ \E status \in {200} \cup ErrStatus :
        /\ http' = [http EXCEPT ![t] = <<Req("GET", remote.version, status)>>]
        /\ AfterLook(t, "archive_page", [confirm |-> confirm], Is2xx(status), status, TRUE,
                     [Payload(PageId, remote.title, remote.body, remote.version,
                              "Archived via MCP") EXCEPT !.status = "archived"],
                     "archive_put")
    /\ UNCHANGED <<remote, cache, ovars>>

MovePage(t, confirm) ==
    /\ pc[t] = "idle" /\ budget > 0
    /\ budget' = budget - 1
    /\ \E source_status \in {200} \cup ErrStatus, target_status \in {200} \cup ErrStatus :
        /\ http' = [http EXCEPT ![t] =
                <<Req("GET", remote.version, source_status), Req("GET", 0, target_status)>>]
        /\ AfterLook(t, "move_page", [confirm |-> confirm],
                     Is2xx(source_status) /\ Is2xx(target_status),
                     IF Is2xx(source_status) THEN target_status ELSE source_status, TRUE,
                     Payload(PageId, remote.title, remote.body, remote.version,
                             "Moved under"),
                     "put1")
    /\ UNCHANGED <<remote, cache, ovars>>

DeleteAttachment(t, attachment_title, confirm) ==
    /\ pc[t] = "idle" /\ budget > 0
    /\ budget' = budget - 1
    /\ \E status \in {200} \cup ErrStatus :
        /\ http' = [http EXCEPT ![t] = <<Req("GET", 0, status)>>]
        /\ AfterLook(t, "delete_attachment",
                     [confirm |-> confirm, attachment_title |-> attachment_title],
                     Is2xx(status), status,
                     \E i \in DOMAIN Attachments : Attachments[i].title = attachment_title,
                     NoLoc.payload, "delete")
    /\ UNCHANGED <<remote, cache, ovars>>

\* The answer to the PUT of the archive, to the second PUT of the move, or
\* to the DELETE of the attachment; raise_for_status, then the message.
Mutate(t) ==
    /\ pc[t] \in {"archive_put", "move_put", "delete"}
    /\ \E status \in {200} \cup ErrStatus :
        LET number == IF pc[t] = "archive_put" THEN loc[t].payload.number
                      ELSE IF pc[t] = "move_put" THEN remote.version + 1 ELSE 0
        IN  /\ http' = [http EXCEPT ![t] = Append(@,
                    Req(IF pc[t] = "delete" THEN "DELETE" ELSE "PUT", number, status))]
            /\ remote' = IF Is2xx(status) /\ pc[t] # "delete"
                         THEN [remote EXCEPT !.version = number] ELSE remote
            /\ IF Is2xx(status)
               THEN Returns(t, loc[t].tool, "done", status, 0, 0)
               ELSE Returns(t, loc[t].tool, "http_error", status, 0, 0)
    /\ pc' = [pc EXCEPT ![t] = "idle"]
    /\ UNCHANGED <<cache, loc, budget, ovars>>

NextDestructive ==
    \/ \E t \in Solo, c \in BOOLEAN : ArchivePage(t, c)
    \/ \E t \in Solo, c \in BOOLEAN : MovePage(t, c)
    \/ \E t \in Solo, a \in AttachmentTitles, c \in BOOLEAN : DeleteAttachment(t, a, c)
    \/ \E t \in Solo : Put(t)
    \/ \E t \in Solo : Mutate(t)

SpecDestructive == InitDestructive /\ [][NextDestructive]_vars

Destructive == {"archive_page", "move_page", "delete_attachment"}

\* C18: a destructive tool called without confirm = True sends only GETs
\* and returns its preview; a PUT, POST or DELETE goes out only with
\* confirm = True.
C18_PreviewByDefault ==
    \A t \in Solo :
        loc[t].tool \in Destructive =>
            /\ ~loc[t].args.confirm =>
                /\ pc[t] = "idle"
                /\ \A i \in DOMAIN http[t] : http[t][i].method = "GET"
                /\ remote.version = loc[t].known
                /\ result[t].outcome \in {"preview", "http_error", "not_found"}
                /\ result[t].outcome = "preview" <=>
                        /\ \A i \in DOMAIN http[t] : Is2xx(http[t][i].status)
                        /\ loc[t].tool = "delete_attachment" =>
                                loc[t].args.attachment_title = "a.png"
            /\ (\E i \in DOMAIN http[t] : http[t][i].method \in Mutating)
                    => loc[t].args.confirm

\* The preview of an archive, and then the same call with confirm = True
\* answered: the PUT went out on the second call only.
C18_Witness ==
    \E t \in Solo :
        /\ loc[t].tool = "archive_page" /\ loc[t].args.confirm
        /\ budget = 0 /\ result[t].outcome = "done"
        /\ http[t] = <<Req("GET", 1, 200), Req("PUT", 2, 200)>>
        /\ remote.version = 2

\* ---------------------------------------- the transport and the boundary
\* confluence_get_page from its argument to its return: _resolve_page_id,
\* every send of _RetryTransport, raise_for_status, _with_error_handling.
max_retries == 2

Digits == {"0", "1", "2", "3", "4", "5", "6", "7", "8", "9"}

DigitValue(ch) ==
    CASE ch = "0" -> 0 [] ch = "1" -> 1 [] ch = "2" -> 2 [] ch = "3" -> 3
      [] ch = "4" -> 4 [] ch = "5" -> 5 [] ch = "6" -> 6 [] ch = "7" -> 7
      [] ch = "8" -> 8 [] OTHER -> 9

\* str.isdigit, and int() of a string it accepts.
isdigit(str) == Len(str) > 0 /\ \A i \in DOMAIN str : str[i] \in Digits

RECURSIVE int(_)
int(str) ==
    IF Len(str) = 0 THEN 0
    ELSE 10 * int(SubSeq(str, 1, Len(str) - 1)) + DigitValue(str[Len(str)])

Min(a, b) == IF a < b THEN a ELSE b

\* The Retry-After header of a response: absent, or its value.
NoHint == [present |-> FALSE, value |-> <<>>]
Hint(value) == [present |-> TRUE, value |-> value]
Hints == {NoHint, Hint(<<"1">>), Hint(<<"1", "1">>), Hint(<<"W", "e", "d">>)}

\* raw = headers.get(b"retry-after") or headers.get("retry-after", "2")
RawHint(hint) == IF hint.present THEN hint.value ELSE <<"2">>

\* What the inner transport gives for one send: a response, or the
\* exception of a timeout or of a refused connection.
Responses ==
    {[kind |-> "response", status |-> st, hint |-> NoHint] : st \in {200} \cup ErrStatus}
    \cup {[kind |-> "response", status |-> 429, hint |-> h] : h \in Hints}
Failures == {[kind |-> k, status |-> 0, hint |-> NoHint] :
                k \in {"ReadTimeout", "ConnectError"}}

\* The argument of the tool, in pieces: a numeric id, a page URL, a short
\* link, and a string that is none of them.
PageRefs == {<<"1", "2">>, <<"/pages/", "1", "2">>, <<"/x/", "k">>, <<"k">>}

\* re.search(r"/pages/(\d+)", url)
PagesMatch(url) ==
    \E i \in DOMAIN url : url[i] = "/pages/" /\ i < Len(url) /\ url[i + 1] \in Digits
IsShortLink(url) == \E i \in DOMAIN url : url[i] \in {"/x/", "tinyurl"}

\* Where a short link lands after the redirects.
Landings == {<<"/pages/", "1", "2">>, <<"/login">>}

Sent(attempt, answer, wait) ==
    [method |-> "GET", number |-> attempt, status |-> answer.status,
     kind |-> answer.kind, hint |-> answer.hint, wait |-> wait]

NoWait == -1

InitBoundary ==
    /\ remote = [id |-> PageId, title |-> "T", version |-> 1,
                 spaceId |-> "SPACE1", body |-> InitDoc]
    /\ cache \in SeedCaches
    /\ pc = [t \in Tasks |-> "idle"]
    /\ loc = [t \in Tasks |-> NoLoc]
    /\ result = [t \in Tasks |-> NoResult]
    /\ http = [t \in Tasks |-> <<>>]
    /\ budget = 1
    /\ InitTokens({NoFile})

\* An exception nothing catches leaves the tool.
Raises(t, tool, exception) ==
    /\ result' = [result EXCEPT ![t] =
            [tool |-> tool, outcome |-> "raised", status |-> 0, version |-> 0,
             count |-> 0, exception |-> exception]]
    /\ pc' = [pc EXCEPT ![t] = "idle"]

\* confluence_get_page up to its first await: _resolve_page_id.
CallGetPage(t, page_ref) ==
    /\ pc[t] = "idle" /\ budget > 0
    /\ budget' = budget - 1
    /\ http' = [http EXCEPT ![t] = <<>>]
    /\ loc' = [loc EXCEPT ![t] =
            [NoLoc EXCEPT !.tool = "get_page", !.pre = cache,
                          !.args = [page_id |-> page_ref], !.count = 0]]
    /\ IF isdigit(page_ref) \/ PagesMatch(page_ref)
       THEN pc' = [pc EXCEPT ![t] = "get"] /\ result' = [result EXCEPT ![t] = NoResult]
       ELSE IF IsShortLink(page_ref)
       THEN pc' = [pc EXCEPT ![t] = "follow"] /\ result' = [result EXCEPT ![t] = NoResult]
       ELSE Raises(t, "get_page", "ValueError")
    /\ UNCHANGED <<remote, cache, ovars>>

\* wait = min(int(raw), 10)
Wait(raw) == Min(int(raw), 10)

\* One pass of the loop of _RetryTransport.handle_async_request, and, when
\* it returns, the rest of the tool up to the next await or to the end.
\* loc[t].count is the loop's `attempt`.
Attempt(t) ==
    /\ pc[t] \in {"follow", "get"}
    /\ \E answer \in Responses \cup Failures :
        LET attempt == loc[t].count
            raw == RawHint(answer.hint)
            again == answer.status = 429 /\ attempt < max_retries
            sent == Sent(attempt, answer, IF again /\ isdigit(raw) THEN Wait(raw) ELSE NoWait)
        IN  /\ http' = [http EXCEPT ![t] = Append(@, sent)]
            /\ IF answer.kind # "response"
               THEN /\ Raises(t, "get_page", answer.kind)
                    /\ UNCHANGED <<loc, cache>>
               ELSE IF again
               THEN IF isdigit(raw)
                    THEN /\ loc' = [loc EXCEPT ![t].count = attempt + 1]
                         /\ UNCHANGED <<pc, result, cache>>
                    ELSE /\ Raises(t, "get_page", "ValueError")
                         /\ UNCHANGED <<loc, cache>>
               ELSE IF ~Is2xx(answer.status)
               THEN /\ Returns(t, "get_page",
                               IF answer.status = 429 THEN "rate_limited" ELSE "http_error",
                               answer.status, 0, 0)
                    /\ pc' = [pc EXCEPT ![t] = "idle"]
                    /\ UNCHANGED <<loc, cache>>
               ELSE IF pc[t] = "follow"
               THEN \E landing \in Landings :
                        IF PagesMatch(landing)
                        THEN /\ pc' = [pc EXCEPT ![t] = "get"]
                             /\ loc' = [loc EXCEPT ![t].count = 0]
                             /\ UNCHANGED <<result, cache>>
                        ELSE /\ Raises(t, "get_page", "ValueError")
                             /\ UNCHANGED <<loc, cache>>
               ELSE /\ cache' = [id |-> remote.id, title |-> remote.title,
                                 version |-> remote.version, spaceId |-> remote.spaceId,
                                 adf |-> remote.body]
                    /\ Returns(t, "get_page", "fetched", answer.status, remote.version, 0)
                    /\ pc' = [pc EXCEPT ![t] = "idle"]
                    /\ loc' = loc
    /\ UNCHANGED <<remote, budget, ovars>>

NextBoundary ==
    \/ \E t \in Solo, ref \in PageRefs : CallGetPage(t, ref)
    \/ \E t \in Solo : Attempt(t)
    \/ \E t \in Solo, f \in {<<"a">>}, r \in {<<"b">>} : EditPage(t, f, r, TRUE)

SpecBoundary == InitBoundary /\ [][NextBoundary]_vars

\* C19: a tool call that has ended has returned a text; no exception has
\* left the tool, whether the call met a non-2xx status, a timeout or a
\* refused connection, a reference that does not resolve, or a missing
\* cache file.
C19_NothingEscapes ==
    \A t \in Solo :
        (pc[t] = "idle" /\ loc[t].tool # "none") => result[t].outcome # "raised"

\* The sends of one request, in the log of the call, since the last
\* attempt 0.
LastRequest(log) ==
    LET starts == {i \in DOMAIN log : log[i].number = 0}
        first == CHOOSE i \in starts : \A j \in starts : j <= i
    IN  IF starts = {} THEN <<>> ELSE SubSeq(log, first, Len(log))

\* C20: one request is sent at most 3 times, re-sent only after a 429 and
\* after a sleep of min(Retry-After, 10) seconds, 2 without the header;
\* what comes back is the first response that is not a 429, or the third
\* 429, which the tool reports as rate limited.
C20_BoundedRetry ==
    \A t \in Solo :
        loc[t].tool = "get_page" /\ http[t] # <<>> =>
            LET sends == LastRequest(http[t])
                last == sends[Len(sends)]
            IN  /\ Len(sends) <= max_retries + 1
                /\ \A i \in 1..(Len(sends) - 1) :
                        /\ sends[i].status = 429
                        /\ sends[i].wait = IF sends[i].hint.present
                                           THEN Min(int(sends[i].hint.value), 10)
                                           ELSE 2
                /\ last.kind = "response" =>
                        \/ last.status = 429 /\ Len(sends) <= max_retries
                                /\ pc[t] # "idle"
                        \/ last.status = 429 /\ Len(sends) = max_retries + 1
                                /\ pc[t] = "idle"
                                /\ result[t].outcome = "rate_limited"
                        \/ last.status # 429 /\ pc[t] # "idle"
                        \/ last.status # 429 /\ pc[t] = "idle"
                                /\ IF Is2xx(last.status)
                                   THEN result[t].outcome \in {"fetched", "raised"}
                                   ELSE /\ result[t].outcome = "http_error"
                                        /\ result[t].status = last.status

\* ---------------------------------------------------------- text extraction
\* _extract_text_from_adf on drawn nodes and depths, and the tool that
\* calls it, confluence_extract_text.
MaxDepth == 2

Words == {<<"a">>, <<"b">>}
Para(text) == make_paragraph(text)
ListItem(content) == [type |-> "listItem", content |-> content]
ListKinds == {"bulletList", "orderedList"}

\* A list of one item, a list whose item holds a nested list, and a list
\* nested two levels down.
ListNodes ==
    {[type |-> k, content |-> <<ListItem(<<Para(x)>>)>>] : k \in ListKinds, x \in Words}
    \cup {[type |-> k, content |->
            <<ListItem(<<Para(x),
                [type |-> k2, content |-> <<ListItem(<<Para(y)>>)>>]>>)>>] :
                k \in ListKinds, k2 \in ListKinds, x \in Words, y \in Words}

Media(type, attrs) == [type |-> type, attrs |-> attrs]
MediaNodes ==
    {Media(k, a) : k \in {"media", "mediaInline"},
                   a \in {[type |-> "file", alt |-> <<"a">>], [type |-> "file", id |-> "x"]}}
    \cup {[type |-> "mediaSingle", attrs |-> [layout |-> "center"],
           content |-> <<Media("media", [type |-> "file", alt |-> x])>>] : x \in Words}
    \cup {[type |-> "mediaGroup",
           content |-> <<Media("media", [type |-> "file", alt |-> <<"a">>]),
                         Media("media", [type |-> "file", id |-> "x"])>>]}

DateNodes == {[type |-> "date", attrs |-> [timestamp |-> ts]] :
                ts \in {<<"1", "7">>, <<"0">>}}

ExpandNodes ==
    {[type |-> k, attrs |-> a, content |-> <<Para(x)>>] :
        k \in {"expand", "nestedExpand"},
        a \in {[title |-> <<"a">>], [title |-> <<>>], [layout |-> "wide"]},
        x \in Words}

ExtractNodes == ListNodes \cup MediaNodes \cup DateNodes \cup ExpandNodes

InitExtract ==
    /\ \E node \in ExtractNodes :
        remote = [id |-> PageId, title |-> "T", version |-> 1,
                  spaceId |-> "SPACE1", body |-> make_adf(<<node>>)]
    /\ cache = NoFile
    /\ pc = [t \in Tasks |-> "idle"]
    /\ loc = [t \in Tasks |-> NoLoc]
    /\ result = [t \in Tasks |-> NoResult]
    /\ http = [t \in Tasks |-> <<>>]
    /\ budget = 1
    /\ InitTokens({NoFile})

\* A call that ended with a text.
ReturnsText(t, tool, outcome, status, text) ==
    result' = [result EXCEPT ![t] =
        [tool |-> tool, outcome |-> outcome, status |-> status, version |-> 0,
         count |-> 0, text |-> text]]

\* _extract_text_from_adf(node, depth) on the node of the page.
Extract(t, depth) ==
    /\ pc[t] = "idle" /\ budget > 0
    /\ budget' = budget - 1
    /\ LET node == remote.body.content[1]
       IN  /\ loc' = [loc EXCEPT ![t] =
                    [NoLoc EXCEPT !.tool = "extract", !.doc = node, !.count = depth]]
           /\ ReturnsText(t, "extract", "text", 0, _extract_text_from_adf(node, depth))
    /\ UNCHANGED <<remote, cache, pc, http, ovars>>

\* confluence_extract_text: one GET, then "# title", an empty line and the
\* text of the whole tree.
ExtractText(t) ==
    /\ pc[t] = "idle" /\ budget > 0
    /\ budget' = budget - 1
    /\ loc' = [loc EXCEPT ![t] =
            [NoLoc EXCEPT !.tool = "extract_text", !.doc = remote.body, !.count = 0]]
    /\ \E status \in {200} \cup ErrStatus :
        /\ http' = [http EXCEPT ![t] = <<Req("GET", remote.version, status)>>]
        /\ IF Is2xx(status)
           THEN ReturnsText(t, "extract_text", "text", status,
                    <<"#", " ">> \o <<remote.title>> \o <<"\n", "\n">>
                    \o Strip(_extract_text_from_adf(remote.body, 0)))
           ELSE Returns(t, "extract_text", "http_error", status, 0, 0)
    /\ UNCHANGED <<remote, cache, pc, ovars>>

NextExtract ==
    \/ \E t \in Solo, depth \in 0..MaxDepth : Extract(t, depth)
    \/ \E t \in Solo : ExtractText(t)

SpecExtract == InitExtract /\ [][NextExtract]_vars

\* The node and the depth of an extraction that has returned.
Extracted(t) == result[t].tool = "extract" /\ result[t].outcome = "text"

\* The renderings of the children of a listItem, its nested lists taken
\* one level deeper.
RECURSIVE OneDeeper(_, _)
OneDeeper(list, depth) ==
    IF list = <<>> THEN <<>>
    ELSE _extract_text_from_adf(Head(list),
            IF Head(list).type \in ListKinds THEN depth + 1 ELSE depth)
         \o OneDeeper(Tail(list), depth)

\* C21: a listItem at depth d is '  ' * d + '- ' + its first line, and the
\* items of a list nested in it are rendered at depth d + 1.
C21_ListDepth ==
    \A t \in Solo :
        Extracted(t) /\ loc[t].doc.type \in ListKinds =>
            LET item == loc[t].doc.content[1]
                d == loc[t].count
            IN  result[t].text = ListItemText(OneDeeper(item.content, d), d)

\* What the claims say of a media or mediaInline node.
AltOrPlaceholder(node) ==
    IF "alt" \in DOMAIN node.attrs THEN node.attrs.alt
    ELSE <<"[", "m", "e", "d", "i", "a", "]">>

RECURSIVE AltsOf(_)
AltsOf(list) ==
    IF list = <<>> THEN <<>> ELSE AltOrPlaceholder(Head(list)) \o AltsOf(Tail(list))

\* C22: media and mediaInline render as the alt attr, or as '[media]'
\* without one; mediaSingle and mediaGroup as their children put together.
C22_Media ==
    \A t \in Solo :
        Extracted(t) =>
            /\ loc[t].doc.type \in {"media", "mediaInline"} =>
                    result[t].text = AltOrPlaceholder(loc[t].doc)
            /\ loc[t].doc.type \in {"mediaSingle", "mediaGroup"} =>
                    result[t].text = AltsOf(loc[t].doc.content)

\* C23: a date renders as its timestamp attr.
C23_Date ==
    \A t \in Solo :
        Extracted(t) /\ loc[t].doc.type = "date" =>
            result[t].text = loc[t].doc.attrs.timestamp

\* C24: expand and nestedExpand render as the mark, the title and the
\* inner text on the next line when there is a non-empty title, and as the
\* inner text otherwise.
C24_Expand ==
    \A t \in Solo :
        Extracted(t) /\ loc[t].doc.type \in {"expand", "nestedExpand"} =>
            LET node == loc[t].doc
                inner == ExtractList(node.content, loc[t].count)
            IN  result[t].text =
                    IF "title" \in DOMAIN node.attrs /\ node.attrs.title # <<>>
                    THEN <<"▸", " ">> \o node.attrs.title \o <<"\n">> \o inner
                    ELSE inner

\* The spellings of the two states in any case, among the states drawn.
SpellsState(state) == state \in {"DONE", "TODO", "done", "todo"}

\* A call of confluence_update_task that was refused for its state: the
\* message, no request, the cache and every task of the page as they were.
StateRefused(t) ==
    LET Carries(node) == node.type = "taskItem"
                         /\ Attr(node, "state", "TODO") \notin {"DONE", "TODO"}
    IN  /\ pc[t] = "idle"
        /\ result[t].outcome = "rejected"
        /\ http[t] = <<>>
        /\ cache = loc[t].pre
        /\ remote.version = 1 /\ NoNode(remote.body, Carries)

\* C25 as stated: every state other than the strings 'DONE' and 'TODO'
\* is refused.
C25_ExactStatesOnly ==
    \A t \in Solo :
        loc[t].tool = "update_task" /\ loc[t].args.state \notin {"DONE", "TODO"}
            => StateRefused(t)

\* C25 as amended: the state is compared without regard to case; every
\* state that is not 'DONE' or 'TODO' in some case is refused with the
\* message, before any request, and a state that is one of them is not.
C25_InvalidStateRefused ==
    \A t \in Solo :
        loc[t].tool = "update_task" =>
            IF SpellsState(loc[t].args.state)
            THEN result[t].outcome # "rejected" /\ http[t] # <<>>
            ELSE StateRefused(t)

C25_Witness ==
    \E t \in Solo :
        /\ loc[t].tool = "update_task" /\ loc[t].args.state = "WIP"
        /\ result[t].outcome = "rejected" /\ http[t] = <<>> /\ budget = 0
        /\ \E i \in DOMAIN NodesOf(remote.body) : NodesOf(remote.body)[i].type = "taskItem"

\* The texts of the leaves that take the place of a leaf split behind the
\* anchor.
PiecesOf(text, after_text, link_text) ==
    LET idx == FirstAt(text, after_text) + Len(after_text)
        before == SubSeq(text, 1, idx)
        after == SubSeq(text, idx + 1, Len(text))
    IN  (IF before # <<>> THEN <<before>> ELSE <<>>)
        \o <<<<" ">>, link_text>>
        \o (IF after # <<>> THEN <<after>> ELSE <<>>)

\* C26: the leaf that confluence_add_link splits is the first leaf, in
\* depth-first pre-order, that contains after_text; the leaves before it
\* and after it are as they were.
C26_FirstInPreOrder ==
    \A t \in Solo :
        LET a == loc[t].args
            old == LeavesOf(loc[t].doc)
            new == LeavesOf(loc[t].payload.body)
            hits == {i \in DOMAIN old : Contains(a.after_text, old[i])}
        IN  (loc[t].tool = "add_link" /\ Fetched(t) /\ a.after_text # <<>> /\ hits # {}) =>
                LET k == CHOOSE i \in hits : \A j \in hits : i <= j
                IN  new = SubSeq(old, 1, k - 1)
                          \o PiecesOf(old[k], a.after_text, a.link_text)
                          \o SubSeq(old, k + 1, Len(old))

\* ----------------------------------------------------- the conflict recovery
\* C27: the PUT of the recovery is the first PUT with the version number
\* of the re-fetch + 1 and nothing else changed, and when it is accepted
\* the page holds the local tree whole: what the other writer committed
\* is replaced, not merged.
C27_RetryPayload ==
    [][\A t \in Solo :
        /\ (pc[t] = "refetch" /\ pc'[t] = "put2") =>
                /\ loc'[t].payload.number = remote.version + 1
                /\ \A key \in DOMAIN loc[t].payload \ {"number"} :
                        loc'[t].payload[key] = loc[t].payload[key]
                /\ DOMAIN loc'[t].payload = DOMAIN loc[t].payload
        /\ (pc[t] = "put2" /\ result'[t].outcome = "pushed") =>
                /\ remote'.body = loc[t].payload.body
                /\ remote'.title = loc[t].payload.title
                /\ loc[t].tool = "push_page" => remote'.body = loc[t].pre.adf
                /\ loc[t].tool = "find_replace" =>
                        remote'.body = FrReplaceText(loc[t].doc, loc[t].args.find,
                                            loc[t].args.replace,
                                            loc[t].args.replace_all, 0).node
      ]_vars

\* A push whose first PUT met the other writer's version: the recovery's
\* PUT was accepted and none of the other writer's tree is on the page.
C27_Witness ==
    \E t \in Solo :
        /\ loc[t].tool = "push_page" /\ result[t].outcome = "pushed"
        /\ Len(http[t]) = 3 /\ http[t][1].status = 409
        /\ http[t][3].method = "PUT" /\ http[t][3].number = http[t][1].number + 1
        /\ remote.body = loc[t].pre.adf /\ remote.body # ExtDoc

\* The answer to the re-fetch of task t's push, when it was not a 2xx.
RefetchFailed(t) ==
    LET L == PushLog(t)
    IN  /\ Len(L) >= 2
        /\ L[1].method = "PUT" /\ L[1].status = 409
        /\ L[2].method = "GET" /\ ~Is2xx(L[2].status)

\* C28: when the re-fetch of the recovery is answered with an error, the
\* push ends with that error: no second PUT, the page as the other writer
\* left it, and the cache file as it was when the tool was called.
C28_RefetchFailure ==
    \A t \in Solo :
        RefetchFailed(t) =>
            /\ Len(PushLog(t)) = 2
            /\ pc[t] = "idle"
            /\ result[t].outcome = "http_error"
            /\ result[t].status = PushLog(t)[2].status
            /\ cache = loc[t].pre

C28_Witness ==
    \E t \in Solo :
        /\ loc[t].tool = "find_replace" /\ RefetchFailed(t)
        /\ http[t] = <<Req("GET", 1, 200), Req("PUT", 2, 409), Req("GET", 2, 500)>>
        /\ result[t].outcome = "http_error" /\ result[t].status = 500
        /\ remote.body = ExtDoc /\ cache = loc[t].pre

\* ------------------------------------------------------ two pushes at once
\* Two tool calls in flight on the same page, each a confluence_push_page
\* of the cached snapshot or a confluence_find_replace, and no other
\* writer.  The two replacements leave different trees.
PairRepls == {<<>>, <<"b">>}

InitPair ==
    /\ remote = [id |-> PageId, title |-> "T", version |-> 1,
                 spaceId |-> "SPACE1", body |-> InitDoc]
    /\ cache = [id |-> PageId, title |-> "T", version |-> 1, spaceId |-> "LOCAL",
                adf |-> make_adf(<<make_paragraph(<<"b">>)>>)]
    /\ pc = [t \in Tasks |-> "idle"]
    /\ loc = [t \in Tasks |-> NoLoc]
    /\ result = [t \in Tasks |-> NoResult]
    /\ http = [t \in Tasks |-> <<>>]
    /\ budget = Cardinality(Tasks)
    /\ InitTokens({NoFile})

NextPair ==
    \/ \E t \in Tasks : loc[t].tool = "none" /\ PushPage(t)
    \/ \E t \in Tasks, r \in PairRepls :
            loc[t].tool = "none" /\ FindReplace(t, <<"a">>, r, TRUE)
    \/ \E t \in Tasks : Put(t)
    \/ \E t \in Tasks : Refetch(t)

SpecPair == InitPair /\ [][NextPair]_vars

\* Both tasks started a push from the same version, and no request of
\* either was answered with anything but 2xx or 409.
PushedFromSame ==
    /\ \A t \in Tasks :
        /\ loc[t].tool \in {"push_page", "find_replace"}
        /\ \A i \in DOMAIN http[t] : Is2xx(http[t][i].status) \/ http[t][i].status = 409
    /\ \A t, u \in Tasks : loc[t].known = loc[u].known

\* C29: two pushes from the same version N with no third writer both
\* succeed: one commits N + 1 with its first PUT, the other gets 409,
\* re-fetches and commits N + 2, and the page ends at N + 2 with the tree
\* of the push that committed last.
C29_BothPushesCommit ==
    (PushedFromSame /\ \A t \in Tasks : pc[t] = "idle") =>
        \E first \in Tasks, last \in Tasks :
            LET N == loc[first].known
            IN  /\ first # last
                /\ result[first].outcome = "pushed" /\ result[first].version = N + 1
                /\ Len(PushLog(first)) = 1 /\ PushLog(first)[1].number = N + 1
                /\ result[last].outcome = "pushed" /\ result[last].version = N + 2
                /\ Len(PushLog(last)) = 3
                /\ PushLog(last)[1].status = 409
                /\ PushLog(last)[2].method = "GET"
                /\ PushLog(last)[3].number = N + 2
                /\ remote.version = N + 2
                /\ remote.body = loc[last].payload.body

\* A find-and-replace and a push of the snapshot from version 1: the push
\* lost the race, recovered, and its tree is the page at version 3.
C29_Witness ==
    /\ PushedFromSame /\ \A t \in Tasks : pc[t] = "idle"
    /\ loc["t1"].tool = "find_replace" /\ loc["t2"].tool = "push_page"
    /\ result["t1"].version = 2 /\ result["t2"].version = 3
    /\ remote.version = 3 /\ remote.body = make_adf(<<make_paragraph(<<"b">>)>>)
    /\ remote.body # loc["t1"].payload.body

\* ------------------------------------------------- one agent, no other writer
\* Calls of confluence_get_page, confluence_edit_page and
\* confluence_push_page in any order, and nobody else writing the page.
NextAlone ==
    \/ \E t \in Solo : GetPage(t)
    \/ \E t \in Solo, f \in Finds, r \in Repls, a \in BOOLEAN : EditPage(t, f, r, a)
    \/ \E t \in Solo : PushPage(t)
    \/ \E t \in Solo : Put(t)

SpecAlone == Init /\ [][NextAlone]_vars

\* C30: with no other writer the snapshot's version is the page's version
\* after every fetch and every successful push, so the first PUT of a push
\* carries the page's version + 1 and is never answered 409; an edit of
\* the snapshot leaves its version, id and title alone.
C30_CacheTracksRemote ==
    \A t \in Solo :
        /\ (pc[t] = "idle" /\ result[t].outcome \in {"fetched", "pushed"}) =>
                cache # NoFile /\ cache.version = remote.version
        /\ pc[t] = "put1" =>
                /\ loc[t].payload.number = remote.version + 1
                /\ PutAccepted(loc[t].payload)
        /\ pc[t] \notin {"refetch", "put2"}
        /\ \A i \in DOMAIN http[t] : http[t][i].status # 409
        /\ (result[t].tool = "edit_page" /\ loc[t].pre # NoFile) =>
                /\ cache.version = loc[t].pre.version
                /\ cache.id = loc[t].pre.id
                /\ cache.title = loc[t].pre.title

\* A fetch, an edit and two pushes: the second push started from the
\* version the first one wrote and was accepted as version 3.
C30_Witness ==
    \E t \in Solo :
        /\ result[t].tool = "push_page" /\ result[t].outcome = "pushed"
        /\ http[t] = <<Req("PUT", 3, 200)>>
        /\ cache.version = 3 /\ remote.version = 3
        /\ cache.adf # InitDoc /\ remote.body = cache.adf

====
